---- MODULE Spec2Model ----
(***************************************************************************)
(* Model of the chorus-middleware trip workflow:                           *)
(*   src/src/controllers/chorus.controller.ts  (POST /chorus/process-data) *)
(*   src/src/services/chorus-api.service.ts    (gateway + orchestrator)    *)
(*   src/src/services/error-log.service.ts     (error audit sink)          *)
(*                                                                         *)
(* A request r submits a batch.  The controller validates and sorts it,    *)
(* starts executeTripWorkflow and answers.  The workflow walks the sorted  *)
(* batch; every remote operation is one makeApiRequest, modelled by an     *)
(* issue step (the fetch leaves) and a completion step (the response or    *)
(* the transport error arrives and the awaiting code runs up to its next   *)
(* await).  The remote API and the audit database are the environment:     *)
(* each call may succeed or fail, each append may succeed or throw.        *)
(* The passthrough endpoints make one makeApiRequest each.  Every          *)
(* makeApiRequest takes its Authorization header from getAuthHeader, which *)
(* reads the clock; the audit table is trimmed by deleteOldLogs            *)
(*   src/src/controllers/error-log.controller.ts (DELETE /error-logs/cleanup). *)
(***************************************************************************)
EXTENDS Integers, Sequences, FiniteSets, TLC

(* ---- bounds of the explored scenarios ---------------------------------- *)
MaxBatch == 2            \* longest batch of the failure scenarios
MaxPairs == 2            \* most existing trips a List response returns there
MaxGatewayFailures == 2  \* most remote calls that fail there
MaxTime == 2             \* distinct instants of the ordering scenarios
MaxSinkFailures == 2     \* most audit appends that throw in the outage scenarios
FewItems == 1            \* batch length where another dimension is explored
FewPairs == 1            \* existing trips where another dimension is explored
FewFailures == 1         \* failing remote calls where another dimension is explored
MaxWindows == 2          \* refresh windows the clock of the token scenarios runs through
MaxDays == 2             \* days the clock of the retention scenarios runs through
MaxCalls == 3            \* passthrough requests of the token scenarios
MaxCallers == 2          \* callers of makeApiRequest that run at the same time

Requests == {1, 2}

Callers == 1..MaxCallers

VARIABLES
  scenario,             \* which requests arrive and how large their inputs are
  request,              \* request[r]: the tripData array as submitted
  response,             \* response[r]: what the controller answered
  sortedTripData,       \* the workflow's sorted copy of the batch
  pc,                   \* position of run r in executeTripWorkflow
  awaiting,             \* TRUE while run r awaits a makeApiRequest
  idx,                  \* loop index i of the batch loop (1-based)
  customerIds,          \* existing trips returned by List for the item
  toteOlpnPairs,        \* the pairs listAllTripsInTransit returned with them
  raw,                  \* the body List answered with for the item
  pairIdx,              \* loop index i of the existing-trip loop (1-based)
  existingTripsFailed,
  tripErrors,
  tripLog,
  itemResult,           \* value returned by processTripData
  log,
  totalProcessed,
  totalErrors,
  result,               \* WorkflowResult the run resolved with
  calls,                \* calls[r]: the makeApiRequests of the current entry
  attempted,            \* observer: olpns whose List call was sent, in order
  failedSteps,          \* observer: remote calls of run r that failed
  failedItems,          \* observer: entries of run r with a failed call
  cleanItems,           \* observer: entries of run r that went through all steps
  errorLogs,            \* rows of the audit table, in insertion order
  gatewayFailures,      \* failures injected so far
  sinkFailures,
  now,                  \* Date.now(), in milliseconds since the process started
  config,               \* the environment variables that are set
  service,              \* "absent", "ready" or "failed": the ChorusApiService instance
  currentToken,         \* cached token, None when null
  tokenExpirationTime,
  mints,                \* observer: the instants createJwtToken was called at
  passthrough,          \* the requests to the passthrough endpoints, in order
  cleanup,              \* what the last DELETE /error-logs/cleanup did
  found,                \* what the last query of the audit table returned
  callers               \* callers[c]: position of caller c of makeApiRequest in getAuthHeader

vars == <<scenario, request, response, sortedTripData, pc, awaiting, idx,
          customerIds, toteOlpnPairs, raw, pairIdx, existingTripsFailed, tripErrors, tripLog,
          itemResult, log, totalProcessed, totalErrors, result, calls,
          attempted, failedSteps, failedItems, cleanItems, errorLogs, gatewayFailures,
          sinkFailures, now, config, service, currentToken, tokenExpirationTime, mints,
          passthrough, cleanup, found, callers>>

NoResponse == [kind |-> "none"]
NoResult == [kind |-> "none"]
NoItemResult == [kind |-> "none"]
NoCleanup == [kind |-> "none"]
NoQuery == [kind |-> "none"]
NoBody == [kind |-> "none", trips |-> {}]
NotCalling == [pc |-> "idle", op |-> "none", token |-> {}, at |-> 0]

(* ---- inputs -------------------------------------------------------------- *)
\* A timestamp string is represented by the instant it parses to; the string
\* that is not a date is represented by InvalidTimestamp.
InvalidTimestamp == 0

\* Date.parse: the instant, or NaN (no value).
DateParse(timestamp) == IF timestamp = InvalidTimestamp THEN {} ELSE {timestamp}

IsNaN(parsed) == parsed = {}

\* new Date(timestamp).getTime() of a timestamp that passed the validation.
GetTime(timestamp) == timestamp

\* The work item submitted at position p carries olpn p.
TripData(p, t) == [toteId |-> "T1364ME", olpn |-> p, timestamp |-> t]

\* The array elements undefined and null.
Undefined == [toteId |-> "undefined", olpn |-> 0, timestamp |-> InvalidTimestamp]

Null == [toteId |-> "null", olpn |-> 0, timestamp |-> InvalidTimestamp]

\* The fields of the element can be read.
Readable(tripData) == tripData \notin {Undefined, Null}

\* The arrays a caller of executeTripWorkflow may pass.
Arrays(maxLen, maxTime) ==
  UNION {{[p \in 1..n |-> IF ts[p] = -1 THEN Undefined
                          ELSE IF ts[p] = 0 THEN Null ELSE TripData(p, ts[p])] :
            ts \in [1..n -> -1..maxTime]} : n \in 0..maxLen}

Timestamps(maxTime, invalid) ==
  (1..maxTime) \cup (IF invalid THEN {InvalidTimestamp} ELSE {})

Batches(maxLen, maxTime, invalid) ==
  UNION {{[p \in 1..n |-> TripData(p, ts[p])] : ts \in [1..n -> Timestamps(maxTime, invalid)]} :
         n \in 0..maxLen}

\* The existing trip at position j of a List response.
ExistingOlpn(j) == 100 + j

(* ---- texts ------------------------------------------------------------------ *)
\* A text is the sequence of its characters.
UpperCase == <<"A", "B", "C", "D", "E", "F", "G", "H", "I", "J", "K", "L", "M", "N", "O", "P", "Q", "R", "S", "T", "U", "V", "W", "X", "Y", "Z">>

LowerCase == <<"a", "b", "c", "d", "e", "f", "g", "h", "i", "j", "k", "l", "m", "n", "o", "p", "q", "r", "s", "t", "u", "v", "w", "x", "y", "z">>

\* String.prototype.toLowerCase
ToLowerCase(text) ==
  [i \in 1..Len(text) |->
     IF \E n \in 1..Len(UpperCase) : UpperCase[n] = text[i]
     THEN LowerCase[CHOOSE n \in 1..Len(UpperCase) : UpperCase[n] = text[i]]
     ELSE text[i]]

\* String.prototype.includes
Includes(text, part) ==
  \E i \in 0..(Len(text) - Len(part)) : SubSeq(text, i + 1, i + Len(part)) = part

(* ---- the ways a call fails --------------------------------------------------- *)
\* A non-2xx response, with the status and body the remote API answers.
HttpFailures ==
  [http |-> [status |-> 500, body |-> <<"S", "e", "r", "v", "e", "r", " ", "E", "r", "r", "o", "r">>],
   http408 |-> [status |-> 408, body |-> <<>>],
   http504 |-> [status |-> 504, body |-> <<>>],
   httpGatewayTimeout |-> [status |-> 502, body |-> <<"G", "a", "t", "e", "w", "a", "y", " ", "T", "i", "m", "e", "o", "u", "t">>],
   httpUpperTimeout |-> [status |-> 503, body |-> <<"U", "P", "S", "T", "R", "E", "A", "M", " ", "T", "I", "M", "E", "O", "U", "T">>],
   httpTimedOut |-> [status |-> 500, body |-> <<"T", "i", "m", "e", "d", " ", "o", "u", "t">>]]

\* fetch, or the reading of the response, throwing: the code and the message
\* of the error thrown.
TransportFailures ==
  [transport |-> [code |-> "ECONNREFUSED", message |-> <<"r", "e", "f", "u", "s", "e", "d">>],
   transportNotFound |-> [code |-> "ENOTFOUND", message |-> <<"g", "e", "t", "a", "d", "d", "r", "i", "n", "f", "o">>],
   transportReset |-> [code |-> "ECONNRESET", message |-> <<"h", "a", "n", "g", " ", "u", "p">>],
   transportFetch |-> [code |-> "none", message |-> <<"f", "e", "t", "c", "h", " ", "f", "a", "i", "l", "e", "d">>],
   transportNetwork |-> [code |-> "none", message |-> <<"n", "e", "t", "w", "o", "r", "k", " ", "t", "i", "m", "e", "o", "u", "t">>],
   transportTimedOut |-> [code |-> "ETIMEDOUT", message |-> <<"c", "o", "n", "n", "e", "c", "t", " ", "E", "T", "I", "M", "E", "D", "O", "U", "T">>],
   transportInvalidJson |-> [code |-> "none", message |-> <<"i", "n", "v", "a", "l", "i", "d", " ", "j", "s", "o", "n">>]]

IsHttp(kind) == kind \in DOMAIN HttpFailures

FailureKinds == DOMAIN HttpFailures \cup DOMAIN TransportFailures

(* ---- the clock ------------------------------------------------------------- *)
TOKEN_VALIDITY_SECONDS == 3600
REFRESH_BUFFER_SECONDS == 300

\* How long after a mint getAuthHeader keeps answering from the cache.
RefreshWindow == (TOKEN_VALIDITY_SECONDS - REFRESH_BUFFER_SECONDS) * 1000

\* One day of Date.setDate, in milliseconds.
MillisPerDay == 86400000

\* The clock is observed at the multiples of a period and one millisecond
\* before each of them.
NextInstant(t, period) == IF t % period = 0 THEN t + period - 1 ELSE t + 1

\* The environment variables the constructor reads.
Credentials == {"GOOGLE_PROJECT_ID", "GOOGLE_CLIENT_EMAIL", "GOOGLE_PRIVATE_KEY_ID",
                "GOOGLE_PRIVATE_KEY"}

\* The scenario families.  Each varies one dimension to its bound and keeps
\* the others small.
\* One request whose remote calls fail.
Failures ==
  [requests |-> {1}, maxBatch |-> MaxBatch, maxTime |-> 1, invalid |-> FALSE,
   maxPairs |-> MaxPairs,
   gatewayFailures |-> MaxGatewayFailures, sinkFailures |-> 0, kinds |-> {"http"},
   period |-> 1, periods |-> 0, calls |-> 0, ops |-> {}, invalidIds |-> FALSE,
   direct |-> FALSE, blanks |-> FALSE]
\* One request submitted in any order of its timestamps, parseable or not.
Ordering ==
  [requests |-> {1}, maxBatch |-> MaxBatch, maxTime |-> MaxTime, invalid |-> TRUE,
   maxPairs |-> FewPairs,
   gatewayFailures |-> FewFailures, sinkFailures |-> 0, kinds |-> {"http"},
   period |-> 1, periods |-> 0, calls |-> 0, ops |-> {}, invalidIds |-> FALSE,
   direct |-> FALSE, blanks |-> FALSE]
\* One request while the audit database is failing.
Outage ==
  [requests |-> {1}, maxBatch |-> FewItems, maxTime |-> 1, invalid |-> FALSE,
   maxPairs |-> FewPairs,
   gatewayFailures |-> FewFailures + 1, sinkFailures |-> MaxSinkFailures,
   kinds |-> {"http", "transport"}, period |-> 1, periods |-> 0, calls |-> 0,
   ops |-> {}, invalidIds |-> FALSE,
   direct |-> FALSE, blanks |-> FALSE]
\* Two requests, the second submitted once the first was answered.
TwoRequests ==
  [requests |-> {1, 2}, maxBatch |-> FewItems, maxTime |-> 1, invalid |-> FALSE,
   maxPairs |-> FewPairs,
   gatewayFailures |-> FewFailures, sinkFailures |-> 0, kinds |-> {"http"},
   period |-> 1, periods |-> 0, calls |-> 0, ops |-> {}, invalidIds |-> FALSE,
   direct |-> FALSE, blanks |-> FALSE]

\* Passthrough requests while the clock runs through the refresh windows.
Token ==
  [requests |-> {}, maxBatch |-> FewItems, maxTime |-> 1, invalid |-> FALSE,
   maxPairs |-> FewPairs, gatewayFailures |-> FewFailures, sinkFailures |-> 0,
   kinds |-> {"http"}, period |-> RefreshWindow, periods |-> MaxWindows,
   calls |-> MaxCalls, ops |-> {"createTrip"}, invalidIds |-> TRUE,
   direct |-> FALSE, blanks |-> FALSE]
\* Passthrough requests whose failures fill the audit table while the clock
\* runs through the days and the table is trimmed.
Retention ==
  [requests |-> {}, maxBatch |-> FewItems, maxTime |-> 1, invalid |-> FALSE,
   maxPairs |-> FewPairs, gatewayFailures |-> FewFailures + 1, sinkFailures |-> 0,
   kinds |-> {"http"}, period |-> MillisPerDay, periods |-> MaxDays,
   calls |-> FewFailures + 1, ops |-> {"endTracking"}, invalidIds |-> FALSE,
   direct |-> FALSE, blanks |-> FALSE]
\* One request whose failures fill the audit table while it is queried and
\* trimmed.
Audit ==
  [requests |-> {1}, maxBatch |-> FewItems, maxTime |-> 1, invalid |-> FALSE,
   maxPairs |-> FewPairs + 1, gatewayFailures |-> FewFailures + 1, sinkFailures |-> 0,
   kinds |-> {"http"}, period |-> 1, periods |-> 0,
   calls |-> 0, ops |-> {}, invalidIds |-> FALSE,
   direct |-> FALSE, blanks |-> FALSE]

\* Passthrough requests that fail in every way, the audit database failing
\* for some of them.
Gateway ==
  [requests |-> {}, maxBatch |-> FewItems, maxTime |-> 1, invalid |-> FALSE,
   maxPairs |-> FewPairs, gatewayFailures |-> FewFailures + 1, sinkFailures |-> FewFailures,
   kinds |-> FailureKinds, period |-> 1, periods |-> 0,
   calls |-> FewFailures + 1, ops |-> {"startTracking"}, invalidIds |-> FALSE,
   direct |-> FALSE, blanks |-> FALSE]

\* One request that reaches executeTripWorkflow through the controller or by
\* a direct call, whose array may then hold elements that are no objects.
Direct ==
  [requests |-> {1}, maxBatch |-> FewItems + 1, maxTime |-> 1, invalid |-> FALSE,
   maxPairs |-> FewPairs, gatewayFailures |-> FewFailures, sinkFailures |-> 0,
   kinds |-> {"http"}, period |-> 1, periods |-> 0,
   calls |-> 0, ops |-> {}, invalidIds |-> FALSE,
   direct |-> TRUE, blanks |-> FALSE]

(* ---- the sort ------------------------------------------------------------ *)
\* Array.prototype.sort is stable: an element is placed after every element
\* already placed whose key is not greater.
RECURSIVE InsertByTimestamp(_, _)
InsertByTimestamp(x, s) ==
  IF s = <<>> THEN <<x>>
  ELSE IF GetTime(Head(s).timestamp) - GetTime(x.timestamp) > 0
       THEN <<x>> \o s
       ELSE <<Head(s)>> \o InsertByTimestamp(x, Tail(s))

RECURSIVE SortRec(_, _)
SortRec(s, acc) ==
  IF s = <<>> THEN acc ELSE SortRec(Tail(s), InsertByTimestamp(Head(s), acc))

\* As InsertByTimestamp, but among the elements of equal key the one
\* submitted later goes first.
RECURSIVE InsertBeforeEqual(_, _)
InsertBeforeEqual(x, s) ==
  IF s = <<>> THEN <<x>>
  ELSE IF \/ GetTime(Head(s).timestamp) - GetTime(x.timestamp) > 0
          \/ /\ GetTime(Head(s).timestamp) = GetTime(x.timestamp)
             /\ Head(s).olpn < x.olpn
       THEN <<x>> \o s
       ELSE <<Head(s)>> \o InsertBeforeEqual(x, Tail(s))

RECURSIVE SortRecUnstable(_, _)
SortRecUnstable(s, acc) ==
  IF s = <<>> THEN acc ELSE SortRecUnstable(Tail(s), InsertBeforeEqual(Head(s), acc))

\* As SortByTimestamp, but entries of equal timestamp come out in reverse.
SortUnstable(tripDataArray) == SortRecUnstable(tripDataArray, <<>>)

UnsortedCopy(tripDataArray) == tripDataArray

SortByTimestamp(tripDataArray) == SortRec(tripDataArray, <<>>)


\* Array.prototype.sort moves the undefined elements to the end without
\* comparing them; the comparator reads a.timestamp and b.timestamp of the
\* others, and is called as soon as there are two of them.
SortThrows(tripDataArray) ==
  LET compared == SelectSeq(tripDataArray, LAMBDA x : x # Undefined)
  IN Len(compared) >= 2 /\ \E i \in 1..Len(compared) : compared[i] = Null

ArraySort(tripDataArray) ==
  SortByTimestamp(SelectSeq(tripDataArray, LAMBDA x : x # Undefined))
    \o SelectSeq(tripDataArray, LAMBDA x : x = Undefined)

(* ---- the remote call gateway --------------------------------------------- *)
Ops == {"listAllTripsInTransit", "endTrip", "endTracking", "createTrip",
        "startTracking", "updateTripToInTransit"}

\* Requests to each of the six passthrough endpoints, some of them failing,
\* the audit database failing for some of the failures.
Passthroughs ==
  [requests |-> {}, maxBatch |-> FewItems, maxTime |-> 1, invalid |-> FALSE,
   maxPairs |-> FewPairs, gatewayFailures |-> FewFailures + 1, sinkFailures |-> FewFailures,
   kinds |-> {"http", "transport"}, period |-> 1, periods |-> 0,
   calls |-> FewFailures + 1, ops |-> Ops, invalidIds |-> FALSE,
   direct |-> FALSE, blanks |-> FALSE]

\* One request whose List responses come without trips, as text, or with
\* trips whose customerId is missing or blank.
Listing ==
  [requests |-> {1}, maxBatch |-> FewItems, maxTime |-> 1, invalid |-> FALSE,
   maxPairs |-> FewPairs + 1, gatewayFailures |-> FewFailures, sinkFailures |-> 0,
   kinds |-> {"http"}, period |-> 1, periods |-> 0,
   calls |-> 0, ops |-> {}, invalidIds |-> FALSE,
   direct |-> FALSE, blanks |-> TRUE]

\* Callers of makeApiRequest that are in getAuthHeader at the same time while
\* the clock runs through the refresh windows; signing a token may throw.
Race ==
  [requests |-> {}, maxBatch |-> FewItems, maxTime |-> 1, invalid |-> FALSE,
   maxPairs |-> FewPairs, gatewayFailures |-> FewFailures, sinkFailures |-> 0,
   kinds |-> {"http"}, period |-> RefreshWindow, periods |-> MaxWindows,
   calls |-> MaxCalls, ops |-> {"createTrip"}, invalidIds |-> FALSE,
   direct |-> FALSE, blanks |-> FALSE]

\* Queries of an audit table that earlier failures of two of the endpoints
\* have filled.
Query ==
  [requests |-> {}, maxBatch |-> FewItems, maxTime |-> 1, invalid |-> FALSE,
   maxPairs |-> FewPairs, gatewayFailures |-> FewFailures + 1, sinkFailures |-> 0,
   kinds |-> {"http", "http504"}, period |-> MillisPerDay, periods |-> MaxDays,
   calls |-> FewFailures + 1, ops |-> {"endTrip", "endTracking"}, invalidIds |-> FALSE,
   direct |-> FALSE, blanks |-> FALSE]

Endpoint(op) ==
  CASE op = "listAllTripsInTransit" -> "v1alpha1/trips:list"
    [] op = "endTrip" -> "v1alpha1/trips:updateStage"
    [] op = "endTracking" -> "v1alpha1/trackings:end"
    [] op = "createTrip" -> "v1alpha1/trips"
    [] op = "startTracking" -> "v1alpha1/trackings:addTrip"
    [] op = "updateTripToInTransit" -> "v1alpha1/trips:updateStage"

\* An optional field is the set of its values: {} when absent.
None == {}

\* The request body each of the six methods builds.
Payload(op, toteId, olpn) ==
  [assetIdentifier |->
     IF op \in {"listAllTripsInTransit", "endTracking", "startTracking"}
     THEN {toteId} ELSE None,
   tripIdentifier |->
     IF op \in {"endTrip", "endTracking", "startTracking", "updateTripToInTransit"}
     THEN {olpn} ELSE None,
   trip |-> IF op = "createTrip" THEN {olpn} ELSE None]

\* payload?.tripIdentifier?.customerId || payload?.trip?.customerId
PayloadOlpn(payload) ==
  IF payload.tripIdentifier # None THEN payload.tripIdentifier ELSE payload.trip

\* The statusCode of the ChorusApiError: response.status, or 0 in the catch
\* of makeApiRequest.
StatusCode(kind) == IF IsHttp(kind) THEN HttpFailures[kind].status ELSE 0

\* As IsTimeoutError, but the body is searched as it is.
IsTimeoutErrorCaseSensitive(statusCode, errorMessage) ==
  \/ statusCode = 504
  \/ statusCode = 408
  \/ Includes(errorMessage, <<"t", "i", "m", "e", "o", "u", "t">>)
  \/ Includes(errorMessage, <<"g", "a", "t", "e", "w", "a", "y", " ", "t", "i", "m", "e", "o", "u", "t">>)

IsTimeoutError(statusCode, errorMessage) ==
  \/ statusCode = 504
  \/ statusCode = 408
  \/ Includes(ToLowerCase(errorMessage), <<"t", "i", "m", "e", "o", "u", "t">>)
  \/ Includes(ToLowerCase(errorMessage), <<"g", "a", "t", "e", "w", "a", "y", " ", "t", "i", "m", "e", "o", "u", "t">>)

\* isNetworkError of the catch of makeApiRequest.
IsNetworkError(error) ==
  \/ error.code = "ENOTFOUND"
  \/ error.code = "ECONNREFUSED"
  \/ error.code = "ECONNRESET"
  \/ Includes(error.message, <<"f", "e", "t", "c", "h">>)
  \/ Includes(error.message, <<"n", "e", "t", "w", "o", "r", "k">>)

\* The message of the ChorusApiError: its prefix and the text that follows.
ErrorMessage(kind) ==
  IF IsHttp(kind)
  THEN [prefix |-> "Chorus API Error", text |-> HttpFailures[kind].body]
  ELSE IF IsNetworkError(TransportFailures[kind])
       THEN [prefix |-> "Network error", text |-> TransportFailures[kind].message]
       ELSE [prefix |-> "Request failed", text |-> TransportFailures[kind].message]

\* The errorType of the row makeApiRequest writes.
ErrorType(kind) ==
  IF IsHttp(kind)
  THEN IF IsTimeoutError(HttpFailures[kind].status, HttpFailures[kind].body)
       THEN "TIMEOUT_ERROR" ELSE "API_ERROR"
  ELSE IF StatusCode(kind) = 0 THEN "NETWORK_ERROR" ELSE "REQUEST_ERROR"

\* createJwtToken: the token is determined by the key id and the second it is
\* signed at.
CreateJwtToken(t) ==
  [kid |-> IF "GOOGLE_PRIVATE_KEY_ID" \in config THEN {"GOOGLE_PRIVATE_KEY_ID"} ELSE None,
   iat |-> t \div 1000,
   exp |-> (t \div 1000) + TOKEN_VALIDITY_SECONDS]

\* As NeedsRefresh, but without the refresh buffer.
RefreshAtExpiry(token, expiration, t) == token = None \/ t >= expiration

AlwaysRefresh(token, expiration, t) == TRUE

\* The refresh decision of getAuthHeader.
NeedsRefresh(token, expiration, t) ==
  token = None \/ t >= expiration - (REFRESH_BUFFER_SECONDS * 1000)

\* getAuthHeader: the header is built from currentToken'.  Here the function
\* runs from its test to its assignments without another caller in between
\* (the promise it awaits is already resolved); MakeApiRequest and
\* GetAuthHeaderResumes take it in its two halves for callers that overlap.
GetAuthHeader ==
  IF NeedsRefresh(currentToken, tokenExpirationTime, now)
  THEN /\ currentToken' = {CreateJwtToken(now)}
       /\ tokenExpirationTime' = now + (TOKEN_VALIDITY_SECONDS * 1000)
       /\ mints' = Append(mints, now)
  ELSE UNCHANGED <<currentToken, tokenExpirationTime, mints>>

\* As CreateErrorLog, but save() overwrites the latest row when there is one.
CreateErrorLogReplacing(logs, errorData, saved) ==
  IF ~saved THEN logs
  ELSE IF logs = <<>> THEN <<errorData @@ [timestamp |-> now]>>
  ELSE [logs EXCEPT ![Len(logs)] = errorData @@ [timestamp |-> now]]

\* errorLogService.createErrorLog: the row is saved, or the save throws.  The
\* database stamps the row (CreateDateColumn).
CreateErrorLog(logs, errorData, saved) ==
  IF saved THEN Append(logs, errorData @@ [timestamp |-> now]) ELSE logs

\* The row makeApiRequest writes for a failed call (r, k).
GatewayErrorData(r, k, call, kind) ==
  [endpoint |-> call.endpoint,
   errorType |-> ErrorType(kind),
   statusCode |-> StatusCode(kind),
   errorMessage |-> ErrorMessage(kind),
   toteId |-> call.payload.assetIdentifier,
   olpn |-> PayloadOlpn(call.payload),
   request |-> r, index |-> call.index, call |-> k]

\* As ChorusApiError, but the error is marked logged whatever the append did.
ChorusApiErrorMarkedLogged(r, k, call, kind, saved) ==
  [isChorusApiError |-> TRUE, isLogged |-> TRUE, endpoint |-> call.endpoint,
   statusCode |-> StatusCode(kind), message |-> ErrorMessage(kind),
   toteId |-> call.payload.assetIdentifier,
   olpn |-> PayloadOlpn(call.payload), request |-> r, index |-> call.index,
   call |-> k]

\* The ChorusApiError makeApiRequest throws: isLogged is set only when the
\* row was saved.
ChorusApiError(r, k, call, kind, saved) ==
  [isChorusApiError |-> TRUE, isLogged |-> saved, endpoint |-> call.endpoint,
   statusCode |-> StatusCode(kind), message |-> ErrorMessage(kind), toteId |-> call.payload.assetIdentifier,
   olpn |-> PayloadOlpn(call.payload), request |-> r, index |-> call.index,
   call |-> k]

AlwaysLog(error) == FALSE

\* As SkipDuplicateLog, but every ChorusApiError is taken as logged.
SkipTypedError(error) == error.isChorusApiError

\* logWorkflowError returns early on an error already logged.
SkipDuplicateLog(error) == error.isChorusApiError /\ error.isLogged

LogWorkflowError(logs, error, saved) ==
  IF SkipDuplicateLog(error) THEN logs
  ELSE CreateErrorLog(logs,
         [endpoint |-> error.endpoint, errorType |-> "WORKFLOW_ERROR",
          statusCode |-> error.statusCode, errorMessage |-> error.message,
          toteId |-> error.toteId,
          olpn |-> error.olpn, request |-> error.request, index |-> error.index,
          call |-> error.call],
         saved)

\* An error that is no ChorusApiError, as logWorkflowError sees it with the
\* context it is given: entry i of run r, call k.
UncaughtError(r, i, k, toteId, olpn) ==
  [isChorusApiError |-> FALSE, isLogged |-> FALSE, endpoint |-> "workflow",
   statusCode |-> 0, message |-> [prefix |-> "TypeError", text |-> <<>>],
   toteId |-> toteId, olpn |-> olpn, request |-> r, index |-> i, call |-> k]

\* Number of appends that threw: the gateway's (s1), then the fallback (s2).
SinkFailuresOf(s1, s2) == (IF s1 THEN 0 ELSE 1) + (IF ~s1 /\ ~s2 THEN 1 ELSE 0)

(* ---- initial states -------------------------------------------------------- *)
InitRest ==
  /\ request = [r \in Requests |-> <<>>]
  /\ response = [r \in Requests |-> NoResponse]
  /\ sortedTripData = [r \in Requests |-> <<>>]
  /\ pc = [r \in Requests |-> "idle"]
  /\ awaiting = [r \in Requests |-> FALSE]
  /\ idx = [r \in Requests |-> 1]
  /\ customerIds = [r \in Requests |-> <<>>]
  /\ toteOlpnPairs = [r \in Requests |-> <<>>]
  /\ raw = [r \in Requests |-> NoBody]
  /\ pairIdx = [r \in Requests |-> 1]
  /\ existingTripsFailed = [r \in Requests |-> FALSE]
  /\ tripErrors = [r \in Requests |-> 0]
  /\ tripLog = [r \in Requests |-> <<>>]
  /\ itemResult = [r \in Requests |-> NoItemResult]
  /\ log = [r \in Requests |-> <<>>]
  /\ totalProcessed = [r \in Requests |-> 0]
  /\ totalErrors = [r \in Requests |-> 0]
  /\ result = [r \in Requests |-> NoResult]
  /\ calls = [r \in Requests |-> <<>>]
  /\ attempted = [r \in Requests |-> <<>>]
  /\ failedSteps = [r \in Requests |-> 0]
  /\ failedItems = [r \in Requests |-> 0]
  /\ cleanItems = [r \in Requests |-> 0]
  /\ gatewayFailures = 0
  /\ sinkFailures = 0
  /\ currentToken = None
  /\ tokenExpirationTime = 0
  /\ mints = <<>>
  /\ passthrough = <<>>
  /\ cleanup = NoCleanup
  /\ found = NoQuery
  /\ callers = [c \in Callers |-> NotCalling]

\* Nothing has run yet: the audit table is empty.
InitRun == InitRest /\ errorLogs = <<>> /\ now = 0

\* The application is up: the service was constructed with all credentials.
Constructed == config = Credentials /\ service = "ready"

\* The application is about to be started.
NotConstructed == config = {} /\ service = "absent"

Init == scenario = Failures /\ Constructed /\ InitRun

InitOrder == scenario = Ordering /\ Constructed /\ InitRun

InitOutage == scenario = Outage /\ Constructed /\ InitRun

InitToken == scenario = Token /\ NotConstructed /\ InitRun

InitStore == scenario = Retention /\ Constructed /\ InitRun

InitAudit == scenario = Audit /\ Constructed /\ InitRun

InitConc == scenario = TwoRequests /\ Constructed /\ InitRun

InitGateway == scenario = Gateway /\ Constructed /\ InitRun

InitDirect == scenario = Direct /\ Constructed /\ InitRun

InitRace == scenario = Race /\ Constructed /\ InitRun

InitListing == scenario = Listing /\ Constructed /\ InitRun

InitPassthrough == scenario = Passthroughs /\ Constructed /\ InitRun


(* ---- helpers of the actions ------------------------------------------------ *)
ctl == <<scenario, request, response, sortedTripData>>
totals == <<log, totalProcessed, totalErrors, result>>
item == <<idx, customerIds, toteOlpnPairs, raw, pairIdx, existingTripsFailed, tripErrors>>
env == <<errorLogs, gatewayFailures, sinkFailures>>
observed == <<attempted, failedSteps, failedItems, cleanItems>>
token == <<currentToken, tokenExpirationTime, mints>>
platform == <<now, config, service, passthrough, cleanup, found, callers>>

TripDataOf(r) == sortedTripData[r][idx[r]]

LogLine(text, olpn) == [text |-> text, olpn |-> olpn]

\* The calls of run r whose promise has not settled yet.
InFlight(r) == {k \in 1..Len(calls[r]) : calls[r][k].status = "pending"}

\* What an observer of the remote API saw of the current entry.
OpsWith(r, status) ==
  {calls[r][k].op : k \in {j \in 1..Len(calls[r]) : calls[r][j].status = status}}

ItemHadFailure(r) == OpsWith(r, "failed") # {}

ItemClean(r) ==
  /\ OpsWith(r, "failed") = {}
  /\ {"listAllTripsInTransit", "createTrip", "startTracking", "updateTripToInTransit"}
       \subseteq OpsWith(r, "ok")

\* The request the method at pc[r] hands to makeApiRequest.
CallOf(r) ==
  LET op == pc[r]
      olpn == CASE op = "endTrip" -> customerIds[r][pairIdx[r]]
                [] op = "endTracking" -> toteOlpnPairs[r][pairIdx[r]][2]
                [] OTHER -> TripDataOf(r).olpn
      toteId == IF op = "endTracking" THEN toteOlpnPairs[r][pairIdx[r]][1]
                ELSE TripDataOf(r).toteId
  IN [op |-> op, endpoint |-> Endpoint(op),
      payload |-> Payload(op, toteId, olpn),
      index |-> idx[r], olpn |-> TripDataOf(r).olpn, status |-> "pending",
      at |-> now, authorization |-> currentToken', cause |-> None, error |-> None,
      appends |-> 0]

\* The awaited call resolves.  The settle delay that follows some of the calls
\* is a wait with no call in flight: it ends when the next Fetch is taken.
Succeeds(r) ==
  /\ awaiting[r]
  /\ calls' = [calls EXCEPT ![r][Len(calls[r])].status = "ok"]
  /\ awaiting' = [awaiting EXCEPT ![r] = FALSE]
  /\ UNCHANGED <<env, observed, token>>

\* The awaited call rejects: makeApiRequest writes its row and throws, and the
\* catch block that receives the error calls logWorkflowError.
Fails(r, kind, s1, s2) ==
  LET k == Len(calls[r])
      call == calls[r][k]
      afterGateway == CreateErrorLog(errorLogs, GatewayErrorData(r, k, call, kind), s1)
      error == ChorusApiError(r, k, call, kind, s1)
  IN /\ awaiting[r]
     /\ kind \in scenario.kinds
     /\ s1 => s2
     /\ gatewayFailures < scenario.gatewayFailures
     /\ sinkFailures + SinkFailuresOf(s1, s2) <= scenario.sinkFailures
     /\ calls' = [calls EXCEPT ![r][k] =
                     [@ EXCEPT !.status = "failed", !.cause = {kind}, !.error = {error},
                               !.appends = 1 + (IF SkipDuplicateLog(error) THEN 0 ELSE 1)]]
     /\ awaiting' = [awaiting EXCEPT ![r] = FALSE]
     /\ errorLogs' = LogWorkflowError(afterGateway, error, s2)
     /\ gatewayFailures' = gatewayFailures + 1
     /\ sinkFailures' = sinkFailures + SinkFailuresOf(s1, s2)
     /\ failedSteps' = [failedSteps EXCEPT ![r] = failedSteps[r] + 1]
     /\ UNCHANGED <<attempted, failedItems, cleanItems, token>>

\* `continue` / end of the body of the existing-trip loop.
(* ---- listAllTripsInTransit -------------------------------------------------------- *)
\* A customerId of a response is the empty text, a text of white space, or
\* the identifier of a trip.
EmptyText == 0

BlankText == 0 - 1

\* String.prototype.trim
Trim(text) == IF text = BlankText THEN EmptyText ELSE text

\* The trip a response may hold at position j: without customerId, with an
\* empty or blank one, or with an identifier.
TripAt(j, kind) ==
  [customerId |-> CASE kind = "missing" -> None
                    [] kind = "empty" -> {EmptyText}
                    [] kind = "blank" -> {BlankText}
                    [] kind = "id" -> {ExistingOlpn(j)}]

\* The body that lists n trips in transit.
ValidBody(n) == [kind |-> "json", trips |-> {[j \in 1..n |-> [customerId |-> {ExistingOlpn(j)}]]}]

\* The bodies List resolves with: JSON with or without the trips field, or
\* text, whatever it reads like.
Bodies ==
  IF scenario.blanks
  THEN {[kind |-> "json", trips |-> None]}
       \cup {[kind |-> "text", trips |-> trips] : trips \in {None, ValidBody(1).trips}}
       \cup UNION {{[kind |-> "json", trips |-> {[j \in 1..n |-> TripAt(j, kinds[j])]}] :
                      kinds \in [1..n -> {"missing", "empty", "blank", "id"}]} :
                   n \in 0..scenario.maxPairs}
  ELSE {ValidBody(n) : n \in 0..scenario.maxPairs}

\* As Trips, but a text body is read as the JSON it spells.
TripsOfText(data) == data.trips

\* data.trips: a text has no such property.
Trips(data) == IF data.kind = "json" THEN data.trips ELSE None

\* As ForEachTrip, but a trip is kept whenever it has a customerId.
RECURSIVE ForEachTripUntrimmed(_, _, _, _)
ForEachTripUntrimmed(toteId, trips, i, lists) ==
  IF i > Len(trips) THEN lists
  ELSE LET id == trips[i].customerId
       IN ForEachTripUntrimmed(toteId, trips, i + 1,
            IF id # None
            THEN [customerIds |-> lists.customerIds \o <<CHOOSE x \in id : TRUE>>,
                  toteOlpnPairs |-> lists.toteOlpnPairs \o <<<<toteId, CHOOSE x \in id : TRUE>>>>]
            ELSE lists)

\* data.trips.forEach: a trip whose customerId is there and is not blank is
\* pushed to both arrays, as it is.
RECURSIVE ForEachTrip(_, _, _, _)
ForEachTrip(toteId, trips, i, lists) ==
  IF i > Len(trips) THEN lists
  ELSE LET id == trips[i].customerId
       IN ForEachTrip(toteId, trips, i + 1,
            IF id # None /\ \A x \in id : Trim(x) # EmptyText
            THEN [customerIds |-> lists.customerIds \o <<CHOOSE x \in id : TRUE>>,
                  toteOlpnPairs |-> lists.toteOlpnPairs \o <<<<toteId, CHOOSE x \in id : TRUE>>>>]
            ELSE lists)

\* listAllTripsInTransit(toteId) for the body data.
ListAllTripsInTransit(toteId, data) ==
  LET none == [customerIds |-> <<>>, toteOlpnPairs |-> <<>>]
      listed == IF Trips(data) # None
                THEN ForEachTrip(toteId, CHOOSE trips \in Trips(data) : TRUE, 1, none)
                ELSE none
  IN [customerIds |-> listed.customerIds, toteOlpnPairs |-> listed.toteOlpnPairs, raw |-> data]

\* The two tests at the head of the loop over the existing trips.
PairPresent(pairs, i) ==
  /\ i <= Len(pairs)
  /\ pairs[i][1] # ""
  /\ pairs[i][2] # EmptyText

\* The first index from i on whose iteration is not skipped, or the length
\* of customerIds plus one.
NextUnskipped(ids, pairs, i) ==
  LET present == {j \in i..Len(ids) : PairPresent(pairs, j)}
  IN IF present = {} THEN Len(ids) + 1
     ELSE CHOOSE j \in present : \A k \in present : j <= k

NextPair(r) ==
  LET i == NextUnskipped(customerIds[r], toteOlpnPairs[r], pairIdx[r] + 1)
  IN /\ pairIdx' = [pairIdx EXCEPT ![r] = i]
     /\ pc' = [pc EXCEPT ![r] = IF i <= Len(customerIds[r]) THEN "endTrip" ELSE "gate"]

\* `return { success, log, errors }` of processTripData.
Return(r, success, errors, line) ==
  /\ itemResult' = [itemResult EXCEPT ![r] =
                      [kind |-> "returned", success |-> success, errors |-> errors]]
  /\ tripLog' = [tripLog EXCEPT ![r] = Append(tripLog[r], LogLine(line, TripDataOf(r).olpn))]
  /\ pc' = [pc EXCEPT ![r] = "return"]

(* ---- the controller -------------------------------------------------------- *)
AnyTripData(tripData) == TRUE

\* The validation of POST /chorus/process-data: a non-empty array whose
\* timestamps all parse.
ValidTripData(tripData) ==
  /\ Len(tripData) # 0
  /\ \A i \in 1..Len(tripData) : ~IsNaN(DateParse(tripData[i].timestamp))

\* POST /chorus/process-data
ProcessData(r, b) ==
  /\ r \in scenario.requests
  /\ service = "ready"
  /\ pc[r] = "idle"
  /\ b \in Batches(scenario.maxBatch, scenario.maxTime, scenario.invalid)
  /\ request' = [request EXCEPT ![r] = b]
  /\ IF ~ValidTripData(b)
     THEN /\ response' = [response EXCEPT ![r] = [kind |-> "error", status |-> 400]]
          /\ pc' = [pc EXCEPT ![r] = "rejected"]
          /\ UNCHANGED sortedTripData
     ELSE \* the workflow is started, not awaited, and the answer is fixed
          /\ sortedTripData' = [sortedTripData EXCEPT ![r] =
                                  SortByTimestamp(SortByTimestamp(b))]
          /\ pc' = [pc EXCEPT ![r] = "loop"]
          /\ response' = [response EXCEPT ![r] =
                            [kind |-> "ok", success |-> TRUE,
                             data |-> "Trip workflow executed successfully"]]
  /\ UNCHANGED <<scenario, awaiting, item, tripLog, itemResult, totals, calls,
                 observed, env, platform, token>>

(* ---- executeTripWorkflow ---------------------------------------------------- *)
\* The batch loop enters processTripData for the next entry.
BeginItem(r) ==
  /\ pc[r] = "loop"
  /\ idx[r] <= Len(sortedTripData[r])
  /\ Readable(TripDataOf(r))
  /\ log' = [log EXCEPT ![r] =
               Append(log[r], LogLine("[PROGRESS] Processing data entry", TripDataOf(r).olpn))]
  /\ tripLog' = [tripLog EXCEPT ![r] =
                   <<LogLine("Processing trip data", TripDataOf(r).olpn)>>]
  /\ tripErrors' = [tripErrors EXCEPT ![r] = 0]
  /\ existingTripsFailed' = [existingTripsFailed EXCEPT ![r] = FALSE]
  /\ customerIds' = [customerIds EXCEPT ![r] = <<>>]
  /\ toteOlpnPairs' = [toteOlpnPairs EXCEPT ![r] = <<>>]
  /\ raw' = [raw EXCEPT ![r] = NoBody]
  /\ pairIdx' = [pairIdx EXCEPT ![r] = 1]
  /\ pc' = [pc EXCEPT ![r] = "listAllTripsInTransit"]
  /\ calls' = [calls EXCEPT ![r] = <<>>]
  /\ UNCHANGED <<ctl, platform, token, awaiting, idx, itemResult, totalProcessed,
                 totalErrors, result, observed, env>>

\* As Fetch, but the caller goes on without awaiting the promise.
FetchWithoutAwait(r) ==
  /\ pc[r] \in Ops
  /\ ~awaiting[r]
  /\ GetAuthHeader
  /\ calls' = [calls EXCEPT ![r] = Append(calls[r], CallOf(r))]
  /\ attempted' = [attempted EXCEPT ![r] =
                     IF pc[r] = "listAllTripsInTransit"
                     THEN Append(attempted[r], TripDataOf(r).olpn) ELSE attempted[r]]
  /\ UNCHANGED <<ctl, platform, pc, awaiting, item, tripLog, itemResult, totals, env, failedSteps,
                 failedItems, cleanItems>>

\* makeApiRequest sends the request and awaits fetch.
Fetch(r) ==
  /\ pc[r] \in Ops
  /\ ~awaiting[r]
  /\ GetAuthHeader
  /\ calls' = [calls EXCEPT ![r] = Append(calls[r], CallOf(r))]
  /\ awaiting' = [awaiting EXCEPT ![r] = TRUE]
  /\ attempted' = [attempted EXCEPT ![r] =
                     IF pc[r] = "listAllTripsInTransit"
                     THEN Append(attempted[r], TripDataOf(r).olpn) ELSE attempted[r]]
  /\ UNCHANGED <<ctl, platform, pc, item, tripLog, itemResult, totals, env, failedSteps,
                 failedItems, cleanItems>>

\* Step 1 resolves with the body data: listAllTripsInTransit walks it, and
\* the loop over the existing trips begins at the first index it does not
\* skip.
ListOk(r, data) ==
  LET listed == ListAllTripsInTransit(TripDataOf(r).toteId, data)
      i == NextUnskipped(listed.customerIds, listed.toteOlpnPairs, 1)
  IN /\ pc[r] = "listAllTripsInTransit"
     /\ data \in Bodies
     /\ Succeeds(r)
     /\ customerIds' = [customerIds EXCEPT ![r] = listed.customerIds]
     /\ toteOlpnPairs' = [toteOlpnPairs EXCEPT ![r] = listed.toteOlpnPairs]
     /\ raw' = [raw EXCEPT ![r] = listed.raw]
     /\ pairIdx' = [pairIdx EXCEPT ![r] = i]
     /\ pc' = [pc EXCEPT ![r] = IF Len(listed.customerIds) > 0 /\ i <= Len(listed.customerIds)
                                THEN "endTrip" ELSE "gate"]
     /\ tripLog' = [tripLog EXCEPT ![r] =
                      Append(tripLog[r], LogLine("Found existing trips", TripDataOf(r).olpn))]
     /\ UNCHANGED <<ctl, platform, idx, existingTripsFailed, tripErrors, itemResult, totals>>

\* As ListFail, but nothing catches the rejection: the run rejects.
ListFailEscapes(r, kind, s1, s2) ==
  /\ pc[r] = "listAllTripsInTransit"
  /\ Fails(r, kind, s1, s2)
  /\ pc' = [pc EXCEPT ![r] = "done"]
  /\ result' = [result EXCEPT ![r] = [kind |-> "rejected"]]
  /\ UNCHANGED <<ctl, platform, item, tripLog, itemResult, log, totalProcessed, totalErrors>>

\* As ListFail, but the entry goes on as if List had found no existing trip.
ListFailGoesOn(r, kind, s1, s2) ==
  /\ pc[r] = "listAllTripsInTransit"
  /\ Fails(r, kind, s1, s2)
  /\ tripErrors' = [tripErrors EXCEPT ![r] = tripErrors[r] + 1]
  /\ pc' = [pc EXCEPT ![r] = "gate"]
  /\ UNCHANGED <<ctl, platform, idx, customerIds, toteOlpnPairs, raw, pairIdx, existingTripsFailed, tripLog,
                 itemResult, totals>>

\* Step 1 rejects: the catch of processTripData.
ListFail(r, kind, s1, s2) ==
  /\ pc[r] = "listAllTripsInTransit"
  /\ Fails(r, kind, s1, s2)
  /\ Return(r, FALSE, 1, "[TIMING] Failed processing")
  /\ UNCHANGED <<ctl, platform, item, totals>>

EndTripOk(r) ==
  /\ pc[r] = "endTrip"
  /\ Succeeds(r)
  /\ pc' = [pc EXCEPT ![r] = "endTracking"]
  /\ UNCHANGED <<ctl, platform, item, tripLog, itemResult, totals>>

\* As EndTripFail, but without the `continue`: the body goes on to endTracking.
EndTripFailStillEndsTracking(r, kind, s1, s2) ==
  /\ pc[r] = "endTrip"
  /\ Fails(r, kind, s1, s2)
  /\ tripErrors' = [tripErrors EXCEPT ![r] = tripErrors[r] + 1]
  /\ existingTripsFailed' = [existingTripsFailed EXCEPT ![r] = TRUE]
  /\ pc' = [pc EXCEPT ![r] = "endTracking"]
  /\ UNCHANGED <<ctl, platform, idx, customerIds, toteOlpnPairs, raw, pairIdx, tripLog, itemResult, totals>>

\* As EndTripFail, but the failure is not counted.
EndTripFailUncounted(r, kind, s1, s2) ==
  /\ pc[r] = "endTrip"
  /\ Fails(r, kind, s1, s2)
  /\ existingTripsFailed' = [existingTripsFailed EXCEPT ![r] = TRUE]
  /\ NextPair(r)
  /\ UNCHANGED <<ctl, platform, idx, customerIds, toteOlpnPairs, raw, tripErrors, tripLog, itemResult, totals>>

\* The catch around endTrip: count, mark, log, `continue`.
EndTripFail(r, kind, s1, s2) ==
  /\ pc[r] = "endTrip"
  /\ Fails(r, kind, s1, s2)
  /\ tripErrors' = [tripErrors EXCEPT ![r] = tripErrors[r] + 1]
  /\ existingTripsFailed' = [existingTripsFailed EXCEPT ![r] = TRUE]
  /\ NextPair(r)
  /\ UNCHANGED <<ctl, platform, idx, customerIds, toteOlpnPairs, raw, tripLog, itemResult, totals>>

EndTrackingOk(r) ==
  /\ pc[r] = "endTracking"
  /\ Succeeds(r)
  /\ NextPair(r)
  /\ UNCHANGED <<ctl, platform, idx, customerIds, toteOlpnPairs, raw, existingTripsFailed, tripErrors, tripLog,
                 itemResult, totals>>

\* As EndTrackingFail, but the failure leaves the loop over the existing trips.
EndTrackingFailBreaks(r, kind, s1, s2) ==
  /\ pc[r] = "endTracking"
  /\ Fails(r, kind, s1, s2)
  /\ tripErrors' = [tripErrors EXCEPT ![r] = tripErrors[r] + 1]
  /\ existingTripsFailed' = [existingTripsFailed EXCEPT ![r] = TRUE]
  /\ pc' = [pc EXCEPT ![r] = "gate"]
  /\ UNCHANGED <<ctl, platform, idx, customerIds, toteOlpnPairs, raw, pairIdx, tripLog, itemResult, totals>>

EndTrackingFail(r, kind, s1, s2) ==
  /\ pc[r] = "endTracking"
  /\ Fails(r, kind, s1, s2)
  /\ tripErrors' = [tripErrors EXCEPT ![r] = tripErrors[r] + 1]
  /\ existingTripsFailed' = [existingTripsFailed EXCEPT ![r] = TRUE]
  /\ NextPair(r)
  /\ UNCHANGED <<ctl, platform, idx, customerIds, toteOlpnPairs, raw, tripLog, itemResult, totals>>


GateAlwaysOpen(r) == TRUE

\* As Gate, but the skip branch never returns.
GateNeverReturns(r) ==
  /\ pc[r] = "gate"
  /\ Len(customerIds[r]) = 0 \/ ~existingTripsFailed[r]
  /\ pc' = [pc EXCEPT ![r] = "createTrip"]
  /\ UNCHANGED <<ctl, platform, awaiting, item, tripLog, itemResult, totals, calls, observed, env, token>>

\* Step 4 runs only if there was no existing trip or none of them failed.
GateOpen(r) == Len(customerIds[r]) = 0 \/ ~existingTripsFailed[r]

Gate(r) ==
  /\ pc[r] = "gate"
  /\ IF GateOpen(r)
     THEN /\ pc' = [pc EXCEPT ![r] = "createTrip"]
          /\ UNCHANGED <<tripLog, itemResult>>
     ELSE Return(r, FALSE, tripErrors[r], "[TIMING] Completed processing - Skipped")
  /\ UNCHANGED <<ctl, platform, awaiting, item, totals, calls, observed, env, token>>

\* As CreateTripOk, but the tracking step is left out.
CreateTripOkSkipsTracking(r) ==
  /\ pc[r] = "createTrip"
  /\ Succeeds(r)
  /\ pc' = [pc EXCEPT ![r] = "updateTripToInTransit"]
  /\ UNCHANGED <<ctl, platform, item, tripLog, itemResult, totals>>

CreateTripOk(r) ==
  /\ pc[r] = "createTrip"
  /\ Succeeds(r)
  /\ pc' = [pc EXCEPT ![r] = "startTracking"]
  /\ UNCHANGED <<ctl, platform, item, tripLog, itemResult, totals>>

\* As CreateTripFail, but the step is tried again instead of returning.
CreateTripFailRetries(r, kind, s1, s2) ==
  /\ pc[r] = "createTrip"
  /\ Fails(r, kind, s1, s2)
  /\ tripErrors' = [tripErrors EXCEPT ![r] = tripErrors[r] + 1]
  /\ UNCHANGED <<ctl, platform, pc, idx, customerIds, toteOlpnPairs, raw, pairIdx, existingTripsFailed, tripLog,
                 itemResult, totals>>

\* As CreateTripFail, but a fallback append that throws is counted as one more
\* error of the entry.
CreateTripFailCountsAppend(r, kind, s1, s2) ==
  /\ pc[r] = "createTrip"
  /\ Fails(r, kind, s1, s2)
  /\ tripErrors' = [tripErrors EXCEPT ![r] = tripErrors[r] + 1]
  /\ Return(r, FALSE, tripErrors[r] + 1 + (IF s2 THEN 0 ELSE 1),
            "[TIMING] Completed processing - Failed at trip creation")
  /\ UNCHANGED <<ctl, platform, idx, customerIds, toteOlpnPairs, raw, pairIdx, existingTripsFailed, totals>>

CreateTripFail(r, kind, s1, s2) ==
  /\ pc[r] = "createTrip"
  /\ Fails(r, kind, s1, s2)
  /\ tripErrors' = [tripErrors EXCEPT ![r] = tripErrors[r] + 1]
  /\ Return(r, FALSE, tripErrors[r] + 1, "[TIMING] Completed processing - Failed at trip creation")
  /\ UNCHANGED <<ctl, platform, idx, customerIds, toteOlpnPairs, raw, pairIdx, existingTripsFailed, totals>>

StartTrackingOk(r) ==
  /\ pc[r] = "startTracking"
  /\ Succeeds(r)
  /\ pc' = [pc EXCEPT ![r] = "updateTripToInTransit"]
  /\ UNCHANGED <<ctl, platform, item, tripLog, itemResult, totals>>

\* As StartTrackingFail, but the entry goes on to its last step.
StartTrackingFailGoesOn(r, kind, s1, s2) ==
  /\ pc[r] = "startTracking"
  /\ Fails(r, kind, s1, s2)
  /\ tripErrors' = [tripErrors EXCEPT ![r] = tripErrors[r] + 1]
  /\ pc' = [pc EXCEPT ![r] = "updateTripToInTransit"]
  /\ UNCHANGED <<ctl, platform, idx, customerIds, toteOlpnPairs, raw, pairIdx, existingTripsFailed, tripLog,
                 itemResult, totals>>

StartTrackingFail(r, kind, s1, s2) ==
  /\ pc[r] = "startTracking"
  /\ Fails(r, kind, s1, s2)
  /\ tripErrors' = [tripErrors EXCEPT ![r] = tripErrors[r] + 1]
  /\ Return(r, FALSE, tripErrors[r] + 1, "[TIMING] Completed processing - Failed at tracking")
  /\ UNCHANGED <<ctl, platform, idx, customerIds, toteOlpnPairs, raw, pairIdx, existingTripsFailed, totals>>

UpdateTripOk(r) ==
  /\ pc[r] = "updateTripToInTransit"
  /\ Succeeds(r)
  /\ Return(r, tripErrors[r] = 0, tripErrors[r], "[TIMING] Completed processing")
  /\ UNCHANGED <<ctl, platform, item, totals>>

UpdateTripFail(r, kind, s1, s2) ==
  /\ pc[r] = "updateTripToInTransit"
  /\ Fails(r, kind, s1, s2)
  /\ tripErrors' = [tripErrors EXCEPT ![r] = tripErrors[r] + 1]
  /\ Return(r, FALSE, tripErrors[r] + 1, "[TIMING] Completed processing - Failed at status update")
  /\ UNCHANGED <<ctl, platform, idx, customerIds, toteOlpnPairs, raw, pairIdx, existingTripsFailed, totals>>

\* As CollectResult, but every entry is counted as processed.
CollectResultCountsAll(r) ==
  /\ pc[r] = "return"
  /\ log' = [log EXCEPT ![r] =
               Append(log[r] \o tripLog[r],
                      LogLine("[PROGRESS] Completed data entry", TripDataOf(r).olpn))]
  /\ totalProcessed' = [totalProcessed EXCEPT ![r] = totalProcessed[r] + 1]
  /\ totalErrors' = [totalErrors EXCEPT ![r] = totalErrors[r] + itemResult[r].errors]
  /\ idx' = [idx EXCEPT ![r] = idx[r] + 1]
  /\ pc' = [pc EXCEPT ![r] = "loop"]
  /\ failedItems' = [failedItems EXCEPT ![r] =
                       failedItems[r] + (IF ItemHadFailure(r) THEN 1 ELSE 0)]
  /\ cleanItems' = [cleanItems EXCEPT ![r] =
                      cleanItems[r] + (IF ItemClean(r) THEN 1 ELSE 0)]
  /\ UNCHANGED <<ctl, platform, awaiting, customerIds, toteOlpnPairs, raw, pairIdx, existingTripsFailed, tripErrors,
                 tripLog, itemResult, result, calls, attempted, failedSteps, env, token>>

\* The batch loop takes the value processTripData returned.
CollectResult(r) ==
  /\ pc[r] = "return"
  /\ log' = [log EXCEPT ![r] =
               Append(log[r] \o tripLog[r],
                      LogLine("[PROGRESS] Completed data entry", TripDataOf(r).olpn))]
  /\ totalProcessed' = [totalProcessed EXCEPT ![r] =
                          totalProcessed[r] + (IF itemResult[r].success THEN 1 ELSE 0)]
  /\ totalErrors' = [totalErrors EXCEPT ![r] = totalErrors[r] + itemResult[r].errors]
  /\ idx' = [idx EXCEPT ![r] = idx[r] + 1]
  /\ pc' = [pc EXCEPT ![r] = "loop"]
  /\ failedItems' = [failedItems EXCEPT ![r] =
                       failedItems[r] + (IF ItemHadFailure(r) THEN 1 ELSE 0)]
  /\ cleanItems' = [cleanItems EXCEPT ![r] =
                      cleanItems[r] + (IF ItemClean(r) THEN 1 ELSE 0)]
  /\ UNCHANGED <<ctl, platform, awaiting, customerIds, toteOlpnPairs, raw, pairIdx, existingTripsFailed, tripErrors,
                 tripLog, itemResult, result, calls, attempted, failedSteps, env, token>>

\* The loop is over: the run resolves with its WorkflowResult.
Finish(r) ==
  /\ pc[r] = "loop"
  /\ idx[r] > Len(sortedTripData[r])
  /\ result' = [result EXCEPT ![r] =
                  [kind |-> "resolved", success |-> totalErrors[r] = 0, data |-> log[r],
                   summary |-> [totalTripData |-> Len(sortedTripData[r]),
                                processed |-> totalProcessed[r],
                                errors |-> totalErrors[r]]]]
  /\ pc' = [pc EXCEPT ![r] = "done"]
  /\ UNCHANGED <<ctl, platform, awaiting, item, tripLog, itemResult, log, totalProcessed,
                 totalErrors, calls, observed, env, token>>

Next ==
  \/ \E r \in {q \in Requests : pc[q] = "idle"} :
       \E b \in Batches(scenario.maxBatch, scenario.maxTime, scenario.invalid) :
         ProcessData(r, b)
  \/ \E r \in Requests : BeginItem(r)
  \/ \E r \in Requests : Fetch(r)
  \/ \E r \in {q \in Requests : pc[q] = "listAllTripsInTransit"}, data \in Bodies :
       ListOk(r, data)
  \/ \E r \in Requests, kind \in FailureKinds, s1, s2 \in BOOLEAN : ListFail(r, kind, s1, s2)
  \/ \E r \in Requests : EndTripOk(r)
  \/ \E r \in Requests, kind \in FailureKinds, s1, s2 \in BOOLEAN : EndTripFail(r, kind, s1, s2)
  \/ \E r \in Requests : EndTrackingOk(r)
  \/ \E r \in Requests, kind \in FailureKinds, s1, s2 \in BOOLEAN : EndTrackingFail(r, kind, s1, s2)
  \/ \E r \in Requests : Gate(r)
  \/ \E r \in Requests : CreateTripOk(r)
  \/ \E r \in Requests, kind \in FailureKinds, s1, s2 \in BOOLEAN : CreateTripFail(r, kind, s1, s2)
  \/ \E r \in Requests : StartTrackingOk(r)
  \/ \E r \in Requests, kind \in FailureKinds, s1, s2 \in BOOLEAN : StartTrackingFail(r, kind, s1, s2)
  \/ \E r \in Requests : UpdateTripOk(r)
  \/ \E r \in Requests, kind \in FailureKinds, s1, s2 \in BOOLEAN : UpdateTripFail(r, kind, s1, s2)
  \/ \E r \in Requests : CollectResult(r)
  \/ \E r \in Requests : Finish(r)

Spec == Init /\ [][Next]_vars

SpecOrder == InitOrder /\ [][Next]_vars

SpecOutage == InitOutage /\ [][Next]_vars

SpecListing == InitListing /\ [][Next]_vars

SpecConc == InitConc /\ [][Next]_vars

(* ---- executeTripWorkflow called directly ---------------------------------------- *)
\* executeTripWorkflow(tripDataArray), called without the controller: the sort
\* comes before the try, so the promise rejects when the comparator throws.
ExecuteTripWorkflow(r, tripDataArray) ==
  /\ scenario.direct
  /\ r \in scenario.requests
  /\ service = "ready"
  /\ pc[r] = "idle"
  /\ tripDataArray \in Arrays(scenario.maxBatch, scenario.maxTime)
  /\ request' = [request EXCEPT ![r] = tripDataArray]
  /\ IF SortThrows(tripDataArray)
     THEN /\ result' = [result EXCEPT ![r] = [kind |-> "rejected"]]
          /\ pc' = [pc EXCEPT ![r] = "done"]
          /\ UNCHANGED sortedTripData
     ELSE /\ sortedTripData' = [sortedTripData EXCEPT ![r] = ArraySort(tripDataArray)]
          /\ pc' = [pc EXCEPT ![r] = "loop"]
          /\ UNCHANGED result
  /\ UNCHANGED <<scenario, response, awaiting, item, tripLog, itemResult, log,
                 totalProcessed, totalErrors, calls, observed, env, platform, token>>

\* processTripData is entered for an element whose fields cannot be read: the
\* destructuring throws before the try of processTripData, the rejection
\* reaches the catch of executeTripWorkflow, and the run ends there.
ItemUnreadable(r, s) ==
  LET first == sortedTripData[r][1]
      error == UncaughtError(r, idx[r], 0,
                             IF Readable(first) THEN {first.toteId} ELSE None,
                             IF Readable(first) THEN {first.olpn} ELSE None)
      lines == <<LogLine("[PROGRESS] Processing data entry", TripDataOf(r).olpn),
                 LogLine("CRITICAL ERROR", TripDataOf(r).olpn)>>
  IN /\ pc[r] = "loop"
     /\ idx[r] <= Len(sortedTripData[r])
     /\ ~Readable(TripDataOf(r))
     /\ sinkFailures + (IF s THEN 0 ELSE 1) <= scenario.sinkFailures
     /\ log' = [log EXCEPT ![r] = log[r] \o lines]
     /\ errorLogs' = LogWorkflowError(errorLogs, error, s)
     /\ sinkFailures' = sinkFailures + (IF s THEN 0 ELSE 1)
     /\ result' = [result EXCEPT ![r] =
                     [kind |-> "resolved", success |-> FALSE, error |-> "TypeError",
                      data |-> log[r] \o lines,
                      summary |-> [totalTripData |-> Len(sortedTripData[r]),
                                   processed |-> totalProcessed[r],
                                   errors |-> totalErrors[r] + 1]]]
     /\ pc' = [pc EXCEPT ![r] = "done"]
     /\ UNCHANGED <<ctl, platform, token, awaiting, item, tripLog, itemResult,
                    totalProcessed, totalErrors, calls, observed, gatewayFailures>>

\* Step 1 resolves with a body listAllTripsInTransit cannot walk (null, or
\* trips that is no array): the TypeError lands in the catch of
\* processTripData.
ListMalformed(r, s) ==
  LET error == UncaughtError(r, idx[r], 1, {TripDataOf(r).toteId}, {TripDataOf(r).olpn})
  IN /\ pc[r] = "listAllTripsInTransit"
     /\ awaiting[r]
     /\ sinkFailures + (IF s THEN 0 ELSE 1) <= scenario.sinkFailures
     /\ calls' = [calls EXCEPT ![r][Len(calls[r])].status = "ok"]
     /\ awaiting' = [awaiting EXCEPT ![r] = FALSE]
     /\ errorLogs' = LogWorkflowError(errorLogs, error, s)
     /\ sinkFailures' = sinkFailures + (IF s THEN 0 ELSE 1)
     /\ Return(r, FALSE, 1, "[TIMING] Failed processing")
     /\ UNCHANGED <<ctl, platform, token, item, totals, observed, gatewayFailures>>

NextDirect ==
  \/ Next
  \/ \E r \in Requests :
       \E tripDataArray \in Arrays(scenario.maxBatch, scenario.maxTime) :
         ExecuteTripWorkflow(r, tripDataArray)
  \/ \E r \in Requests, s \in BOOLEAN : ItemUnreadable(r, s)
  \/ \E r \in Requests, s \in BOOLEAN : ListMalformed(r, s)

SpecDirect == InitDirect /\ [][NextDirect]_vars

(* ---- construction, clock and passthrough endpoints ---------------------------- *)
\* The test of the constructor: client email, private key and project id.
CredentialsConfigured(environment) ==
  ~(\/ "GOOGLE_CLIENT_EMAIL" \notin environment
    \/ "GOOGLE_PRIVATE_KEY" \notin environment
    \/ "GOOGLE_PROJECT_ID" \notin environment)

\* new ChorusApiService(configService, errorLogService): the instance exists
\* unless the constructor throws.
Construct(environment) ==
  /\ service = "absent"
  /\ environment \in SUBSET Credentials
  /\ config' = environment
  /\ service' = IF CredentialsConfigured(environment) THEN "ready" ELSE "failed"
  /\ UNCHANGED <<scenario, request, response, sortedTripData, pc, awaiting, item, tripLog,
                 itemResult, totals, calls, observed, env, token, now, passthrough,
                 cleanup, found, callers>>

runs == <<scenario, request, response, sortedTripData, pc, awaiting, item, tripLog,
          itemResult, totals, calls, observed>>

\* Time passes.
Tick ==
  /\ now < scenario.periods * scenario.period
  /\ now' = NextInstant(now, scenario.period)
  /\ UNCHANGED <<runs, env, token, config, service, passthrough, cleanup, found, callers>>

Pending == {k \in 1..Len(passthrough) : passthrough[k].status = "pending"}

\* A passthrough endpoint of the controller is requested.  Without its
\* identifiers the handler throws before the service is called, and its
\* catch answers 500; otherwise the service method hands one request to
\* makeApiRequest.
PassthroughRequest(op, valid) ==
  /\ service = "ready"
  /\ op \in scenario.ops
  /\ valid \/ scenario.invalidIds
  /\ Len(passthrough) < scenario.calls
  /\ Pending = {}
  /\ IF valid
     THEN /\ GetAuthHeader
          /\ passthrough' = Append(passthrough,
               [op |-> op, endpoint |-> Endpoint(op), payload |-> Payload(op, "T1364ME", 1),
                index |-> 0, olpn |-> 1, status |-> "pending", at |-> now,
                authorization |-> currentToken', cause |-> None, error |-> None,
                response |-> NoResponse])
     ELSE /\ UNCHANGED token
          /\ passthrough' = Append(passthrough,
               [op |-> op, endpoint |-> Endpoint(op),
                payload |-> [assetIdentifier |-> None, tripIdentifier |-> None, trip |-> None],
                index |-> 0, olpn |-> 1, status |-> "rejected", at |-> now,
                authorization |-> None, cause |-> None, error |-> None,
                response |-> [kind |-> "error", status |-> 500]])
  /\ UNCHANGED <<runs, env, now, config, service, cleanup, found, callers>>

\* The call resolves: { success: true, result }.
PassthroughOk ==
  /\ Pending # {}
  /\ passthrough' = [passthrough EXCEPT ![Len(passthrough)] =
                       [@ EXCEPT !.status = "ok", !.response = [kind |-> "ok", success |-> TRUE]]]
  /\ UNCHANGED <<runs, env, token, now, config, service, cleanup, found, callers>>

\* As PassthroughFail, but the handler answers as if the call had resolved.
PassthroughFailAnswersOk(kind, s1) ==
  LET k == Len(passthrough)
  IN /\ Pending # {}
     /\ kind \in scenario.kinds
     /\ gatewayFailures < scenario.gatewayFailures
     /\ sinkFailures + (IF s1 THEN 0 ELSE 1) <= scenario.sinkFailures
     /\ passthrough' = [passthrough EXCEPT ![k] =
                          [@ EXCEPT !.status = "failed", !.cause = {kind},
                                    !.error = {ChorusApiError(0, k, passthrough[k], kind, s1)},
                                    !.response = [kind |-> "ok", success |-> TRUE]]]
     /\ errorLogs' = CreateErrorLog(errorLogs, GatewayErrorData(0, k, passthrough[k], kind), s1)
     /\ gatewayFailures' = gatewayFailures + 1
     /\ sinkFailures' = sinkFailures + (IF s1 THEN 0 ELSE 1)
     /\ UNCHANGED <<runs, token, now, config, service, cleanup, found, callers>>

\* The call rejects: makeApiRequest writes its row and throws, the handler
\* answers 500.
PassthroughFail(kind, s1) ==
  LET k == Len(passthrough)
  IN /\ Pending # {}
     /\ kind \in scenario.kinds
     /\ gatewayFailures < scenario.gatewayFailures
     /\ sinkFailures + (IF s1 THEN 0 ELSE 1) <= scenario.sinkFailures
     /\ passthrough' = [passthrough EXCEPT ![k] =
                          [@ EXCEPT !.status = "failed", !.cause = {kind},
                                    !.error = {ChorusApiError(0, k, passthrough[k], kind, s1)},
                                    !.response = [kind |-> "error", status |-> 500]]]
     /\ errorLogs' = CreateErrorLog(errorLogs, GatewayErrorData(0, k, passthrough[k], kind), s1)
     /\ gatewayFailures' = gatewayFailures + 1
     /\ sinkFailures' = sinkFailures + (IF s1 THEN 0 ELSE 1)
     /\ UNCHANGED <<runs, token, now, config, service, cleanup, found, callers>>

(* ---- the audit table ------------------------------------------------------------ *)
ExpiredOrAtCutoff(row, cutoffDate) == row.timestamp <= cutoffDate

\* where('timestamp < :cutoffDate')
Expired(row, cutoffDate) == row.timestamp < cutoffDate

\* As Kept, but one delete removes the oldest matching row only.
KeptButOne(logs, cutoffDate) ==
  LET first == {n \in 1..Len(logs) :
                  /\ Expired(logs[n], cutoffDate)
                  /\ \A m \in 1..(n - 1) : ~Expired(logs[m], cutoffDate)}
  IN [n \in 1..(Len(logs) - Cardinality(first)) |->
        IF \E m \in first : m <= n THEN logs[n + 1] ELSE logs[n]]

\* The rows the delete leaves in the table.
Kept(logs, cutoffDate) == SelectSeq(logs, LAMBDA row : ~Expired(row, cutoffDate))

\* DELETE /error-logs/cleanup?daysOld=d: deleteOldLogs(d) and its answer.
DeleteOldLogs(daysOld) ==
  LET cutoffDate == now - daysOld * MillisPerDay
      remaining == Kept(errorLogs, cutoffDate)
  IN /\ daysOld \in -1..scenario.periods
     /\ errorLogs' = remaining
     /\ cleanup' = [kind |-> "done", cutoffDate |-> cutoffDate,
                     deletedCount |-> Len(errorLogs) - Len(remaining),
                     left |-> Len(remaining),
                     repeated |-> /\ cleanup.kind = "done"
                                  /\ cleanup.cutoffDate = cutoffDate
                                  /\ cleanup.left = Len(errorLogs)]
     /\ UNCHANGED <<runs, gatewayFailures, sinkFailures, token, now, config, service,
                    passthrough, found, callers>>

\* The orders in which the database may return rows `ORDER BY timestamp DESC`.
NewestFirst(rows) ==
  {[i \in 1..Len(rows) |-> rows[f[i]]] :
     f \in {g \in Permutations(1..Len(rows)) :
              \A a, b \in 1..Len(rows) :
                a < b => rows[g[a]].timestamp >= rows[g[b]].timestamp}}

\* GET /error-logs/olpn/:olpn
FindByOlpn(olpn) ==
  /\ \E rows \in NewestFirst(SelectSeq(errorLogs, LAMBDA row : row.olpn = {olpn})) :
       found' = [kind |-> "rows", olpn |-> olpn, rows |-> rows]
  /\ UNCHANGED <<runs, env, token, now, config, service, passthrough, cleanup, callers>>

(* ---- the query of the audit table ------------------------------------------------- *)
\* The characters of the endpoint column.
EndpointText(endpoint) ==
  CASE endpoint = "v1alpha1/trips:list" ->
         <<"v", "1", "a", "l", "p", "h", "a", "1", "/", "t", "r", "i", "p", "s", ":", "l", "i", "s", "t">>
    [] endpoint = "v1alpha1/trips:updateStage" ->
         <<"v", "1", "a", "l", "p", "h", "a", "1", "/", "t", "r", "i", "p", "s", ":", "u", "p", "d", "a", "t", "e", "S", "t", "a", "g", "e">>
    [] endpoint = "v1alpha1/trackings:end" ->
         <<"v", "1", "a", "l", "p", "h", "a", "1", "/", "t", "r", "a", "c", "k", "i", "n", "g", "s", ":", "e", "n", "d">>
    [] endpoint = "v1alpha1/trips" ->
         <<"v", "1", "a", "l", "p", "h", "a", "1", "/", "t", "r", "i", "p", "s">>
    [] endpoint = "v1alpha1/trackings:addTrip" ->
         <<"v", "1", "a", "l", "p", "h", "a", "1", "/", "t", "r", "a", "c", "k", "i", "n", "g", "s", ":", "a", "d", "d", "T", "r", "i", "p">>

\* The LIKE of the database: % stands for any text, _ for any one character.
RECURSIVE Like(_, _)
Like(text, pattern) ==
  IF pattern = <<>> THEN text = <<>>
  ELSE IF Head(pattern) = "%"
       THEN Like(text, Tail(pattern)) \/ (text # <<>> /\ Like(Tail(text), pattern))
       ELSE /\ text # <<>>
            /\ Head(pattern) = "_" \/ Head(pattern) = Head(text)
            /\ Like(Tail(text), Tail(pattern))

\* The row the k-th failure left in the table: a passthrough request for op
\* and trip k failed with kind at instant t.
RowOf(k, op, kind, t) ==
  GatewayErrorData(0, k, [endpoint |-> Endpoint(op), payload |-> Payload(op, "T1364ME", k),
                          index |-> 0], kind) @@ [timestamp |-> t]

\* The tables the failures of the scenario leave: rows in insertion order,
\* stamped by a clock that does not run backwards.
Tables ==
  UNION {{[k \in 1..n |-> RowOf(k, f[k][1], f[k][2], f[k][3] * scenario.period)] :
            f \in {g \in [1..n -> scenario.ops \X scenario.kinds \X (0..scenario.periods)] :
                     \A a, b \in 1..n : a < b => g[a][3] <= g[b][3]}} :
         n \in 0..scenario.calls}

\* The filters GET /error-logs hands to findAll: a query parameter that is
\* absent or empty sets no filter.
Filters ==
  [errorType : {None, {"TIMEOUT_ERROR"}},
   endpoint : {None, {<<"t", "r", "i", "p", "s">>}, {<<"s", "_", "e">>}},
   toteId : {None, {"T1364ME"}},
   olpn : {None, {1}},
   startDate : {None, {scenario.period}},
   endDate : {None, {scenario.period}}]

\* The queries asked: any page of any size under the filters of the time
\* range, and the first page, large enough for the whole table, under any
\* filters.
Asked(page, limit, filters) ==
  /\ page \in 1..scenario.calls
  /\ limit \in 1..scenario.calls
  /\ filters \in Filters
  /\ \/ /\ filters.errorType = None /\ filters.endpoint = None
        /\ filters.toteId = None /\ filters.olpn = None
     \/ page = 1 /\ limit = scenario.calls

\* The WHERE clause findAll builds.
Where(row, filters) ==
  /\ filters.errorType # None => {row.errorType} = filters.errorType
  /\ filters.endpoint # None =>
       \A part \in filters.endpoint :
         Like(EndpointText(row.endpoint), <<"%">> \o part \o <<"%">>)
  /\ filters.toteId # None => row.toteId = filters.toteId
  /\ filters.olpn # None => row.olpn = filters.olpn
  /\ (filters.startDate # None /\ filters.endDate # None) =>
       \A startDate \in filters.startDate, endDate \in filters.endDate :
         startDate <= row.timestamp /\ row.timestamp <= endDate

\* GET /error-logs: findAll(page, limit, filters).
FindAll(page, limit, filters) ==
  LET matching == SelectSeq(errorLogs, LAMBDA row : Where(row, filters))
      offset == (page - 1) * limit
  IN /\ found = NoQuery
     /\ Asked(page, limit, filters)
     /\ \E rows \in NewestFirst(matching) :
          found' = [kind |-> "page", page |-> page, limit |-> limit, filters |-> filters,
                    logs |-> SubSeq(rows, offset + 1,
                                    IF offset + limit < Len(rows) THEN offset + limit
                                    ELSE Len(rows)),
                    total |-> Len(matching)]
     /\ UNCHANGED <<runs, env, token, now, config, service, passthrough, cleanup, callers>>

(* ---- getAuthHeader under callers that overlap ------------------------------------- *)
\* The callers whose getAuthHeader awaits the promise of createJwtToken.
Minting == {c \in Callers : callers[c].pc = "awaiting"}

\* The request makeApiRequest sends with the header it was given.
Sent(op, header) ==
  [op |-> op, endpoint |-> Endpoint(op), payload |-> Payload(op, "T1364ME", 1),
   index |-> 0, olpn |-> 1, status |-> "pending", at |-> now,
   authorization |-> header, cause |-> None, error |-> None,
   response |-> NoResponse]

\* As MakeApiRequest, but a signing that throws empties the cache.
MakeApiRequestClearsCache(c, op, signed) ==
  /\ service = "ready"
  /\ op \in scenario.ops
  /\ callers[c].pc \in {"idle", "threw"}
  /\ Len(passthrough) + Cardinality(Minting) < scenario.calls
  /\ IF ~NeedsRefresh(currentToken, tokenExpirationTime, now)
     THEN /\ signed
          /\ passthrough' = Append(passthrough, Sent(op, currentToken))
          /\ callers' = [callers EXCEPT ![c] = NotCalling]
          /\ UNCHANGED token
     ELSE IF signed
     THEN /\ mints' = Append(mints, now)
          /\ callers' = [callers EXCEPT ![c] =
                           [pc |-> "awaiting", op |-> op, token |-> {CreateJwtToken(now)},
                            at |-> now]]
          /\ UNCHANGED <<currentToken, tokenExpirationTime, passthrough>>
     ELSE /\ callers' = [callers EXCEPT ![c] =
                           [pc |-> "threw", op |-> op, token |-> {}, at |-> now]]
          /\ currentToken' = None
          /\ UNCHANGED <<tokenExpirationTime, mints, passthrough>>
  /\ UNCHANGED <<runs, env, now, config, service, cleanup, found>>

\* makeApiRequest up to the first time it yields: it calls getAuthHeader,
\* which tests the cache.  With a valid token cached the header carries it
\* and the request is sent.  Otherwise createJwtToken runs to its end at once
\* (it awaits nothing): either it signs a token, and getAuthHeader yields at
\* its await with the cache still as it was, or the signing throws, and the
\* error leaves getAuthHeader and makeApiRequest (the call is outside the try
\* of makeApiRequest) before anything was assigned or sent.
MakeApiRequest(c, op, signed) ==
  /\ service = "ready"
  /\ op \in scenario.ops
  /\ callers[c].pc \in {"idle", "threw"}
  /\ Len(passthrough) + Cardinality(Minting) < scenario.calls
  /\ IF ~NeedsRefresh(currentToken, tokenExpirationTime, now)
     THEN /\ signed
          /\ passthrough' = Append(passthrough, Sent(op, currentToken))
          /\ callers' = [callers EXCEPT ![c] = NotCalling]
          /\ UNCHANGED token
     ELSE IF signed
     THEN /\ mints' = Append(mints, now)
          /\ callers' = [callers EXCEPT ![c] =
                           [pc |-> "awaiting", op |-> op, token |-> {CreateJwtToken(now)},
                            at |-> now]]
          /\ UNCHANGED <<currentToken, tokenExpirationTime, passthrough>>
     ELSE /\ callers' = [callers EXCEPT ![c] =
                           [pc |-> "threw", op |-> op, token |-> {}, at |-> now]]
          /\ UNCHANGED <<token, passthrough>>
  /\ UNCHANGED <<runs, env, now, config, service, cleanup, found>>

\* As GetAuthHeaderResumes, but the header is built from the token that was
\* cached before the assignment.
GetAuthHeaderReturnsCached(c) ==
  /\ callers[c].pc = "awaiting"
  /\ currentToken' = callers[c].token
  /\ tokenExpirationTime' = now + (TOKEN_VALIDITY_SECONDS * 1000)
  /\ passthrough' = Append(passthrough, Sent(callers[c].op, currentToken))
  /\ callers' = [callers EXCEPT ![c] = NotCalling]
  /\ UNCHANGED <<runs, env, mints, now, config, service, cleanup, found>>

\* getAuthHeader after its await: the caller's own token and an expiry one
\* hour from now are assigned, the header carries currentToken as it is
\* right after the assignment, and makeApiRequest sends the request.
GetAuthHeaderResumes(c) ==
  /\ callers[c].pc = "awaiting"
  /\ currentToken' = callers[c].token
  /\ tokenExpirationTime' = now + (TOKEN_VALIDITY_SECONDS * 1000)
  /\ passthrough' = Append(passthrough, Sent(callers[c].op, currentToken'))
  /\ callers' = [callers EXCEPT ![c] = NotCalling]
  /\ UNCHANGED <<runs, env, mints, now, config, service, cleanup, found>>

\* Time passes.  A continuation that waits for a promise already resolved
\* runs within the turn of the event loop: the clock moves by no more than a
\* millisecond while a caller is at the await of getAuthHeader.
Elapse ==
  /\ Minting # {} => NextInstant(now, scenario.period) = now + 1
  /\ Tick

NextRace ==
  \/ Elapse
  \/ \E c \in Callers, op \in Ops, signed \in BOOLEAN : MakeApiRequest(c, op, signed)
  \/ \E c \in Callers : GetAuthHeaderResumes(c)

SpecRace == InitRace /\ [][NextRace]_vars

NextToken ==
  \/ \E environment \in SUBSET Credentials : Construct(environment)
  \/ Tick
  \/ \E op \in Ops, valid \in BOOLEAN : PassthroughRequest(op, valid)
  \/ PassthroughOk
  \/ \E kind \in FailureKinds, s1 \in BOOLEAN : PassthroughFail(kind, s1)

SpecToken == InitToken /\ [][NextToken]_vars

NextStore ==
  \/ Tick
  \/ \E op \in Ops, valid \in BOOLEAN : PassthroughRequest(op, valid)
  \/ \E kind \in FailureKinds, s1 \in BOOLEAN : PassthroughFail(kind, s1)
  \/ \E daysOld \in -1..scenario.periods : DeleteOldLogs(daysOld)

SpecStore == InitStore /\ [][NextStore]_vars

NextGateway ==
  \/ \E op \in Ops, valid \in BOOLEAN : PassthroughRequest(op, valid)
  \/ PassthroughOk
  \/ \E kind \in FailureKinds, s1 \in BOOLEAN : PassthroughFail(kind, s1)

SpecGateway == InitGateway /\ [][NextGateway]_vars

SpecPassthrough == InitPassthrough /\ [][NextGateway]_vars

NextAudit ==
  \/ Next
  \/ \E daysOld \in -1..scenario.periods : DeleteOldLogs(daysOld)
  \/ \E olpn \in {ExistingOlpn(1)} : FindByOlpn(olpn)

SpecAudit == InitAudit /\ [][NextAudit]_vars

\* The table was filled before the query: the clock stands at its last instant.
InitQuery ==
  /\ scenario = Query
  /\ Constructed
  /\ InitRest
  /\ errorLogs \in Tables
  /\ now = scenario.periods * scenario.period

NextQuery ==
  \E page, limit \in 1..scenario.calls : \E filters \in Filters : FindAll(page, limit, filters)

SpecQuery == InitQuery /\ [][NextQuery]_vars

\* The steps of run r.  A step that is enabled stays enabled until it is taken:
\* the continuation of an await runs once the awaited call or append settles.
RunStep(r) ==
  \/ BeginItem(r)
  \/ Fetch(r)
  \/ \E data \in Bodies : ListOk(r, data)
  \/ \E kind \in FailureKinds, s1, s2 \in BOOLEAN : ListFail(r, kind, s1, s2)
  \/ EndTripOk(r)
  \/ \E kind \in FailureKinds, s1, s2 \in BOOLEAN : EndTripFail(r, kind, s1, s2)
  \/ EndTrackingOk(r)
  \/ \E kind \in FailureKinds, s1, s2 \in BOOLEAN : EndTrackingFail(r, kind, s1, s2)
  \/ Gate(r)
  \/ CreateTripOk(r)
  \/ \E kind \in FailureKinds, s1, s2 \in BOOLEAN : CreateTripFail(r, kind, s1, s2)
  \/ StartTrackingOk(r)
  \/ \E kind \in FailureKinds, s1, s2 \in BOOLEAN : StartTrackingFail(r, kind, s1, s2)
  \/ UpdateTripOk(r)
  \/ \E kind \in FailureKinds, s1, s2 \in BOOLEAN : UpdateTripFail(r, kind, s1, s2)
  \/ CollectResult(r)
  \/ Finish(r)

\* The outage scenario with every call and every append eventually settling.
SpecOutageLive ==
  InitOutage /\ [][Next]_vars /\ \A r \in Requests : WF_vars(RunStep(r))


(* ---- properties ------------------------------------------------------------- *)
Resolved(r) == result[r].kind = "resolved"

\* The instant of the entry that carries olpn o: olpn is the submission position.
TimeOf(r, o) == GetTime(request[r][o].timestamp)

NonDecreasing(r, olpns) ==
  \A a, b \in 1..Len(olpns) : a < b => TimeOf(r, olpns[a]) <= TimeOf(r, olpns[b])

OlpnsOf(lines) == [k \in 1..Len(lines) |-> lines[k].olpn]

NumFailed(r) == Cardinality({k \in 1..Len(calls[r]) : calls[r][k].status = "failed"})

\* C1: whatever the submission order, the entries are processed, and appear in
\* the log of the run and of its result, in non-decreasing timestamp order.
C1_ProcessedInTimeOrder ==
  \A r \in Requests :
    /\ NonDecreasing(r, attempted[r])
    /\ NonDecreasing(r, OlpnsOf(log[r]))
    /\ Resolved(r) => /\ NonDecreasing(r, OlpnsOf(result[r].data))
                      /\ Len(attempted[r]) = Len(request[r])

C1_Witness ==
  /\ Resolved(1)
  /\ Len(request[1]) = 2
  /\ request[1][1].timestamp > request[1][2].timestamp
  /\ attempted[1] = <<2, 1>>

\* C2: a failing entry does not stop the batch: when the run is over every
\* entry has had its List call, in the sorted order, and processed plus the
\* number of entries with a failed call is the number of entries.
C2_ContinueOnFailure ==
  \A r \in Requests :
    pc[r] = "done" =>
      /\ Resolved(r)
      /\ attempted[r] = OlpnsOf(sortedTripData[r])
      /\ result[r].summary.processed + failedItems[r] = result[r].summary.totalTripData
      /\ result[r].summary.totalTripData = Len(request[r])

C2_Witness ==
  /\ idx[1] = 2
  /\ failedItems[1] = 1
  /\ Len(attempted[1]) = 2
  /\ calls[1] # <<>>

\* C3: once a call for an existing trip has failed, CreateTrip, StartTracking
\* and UpdateToInTransit are not invoked for that entry.
C3_GateClosedAfterExistingFailure ==
  \A r \in Requests :
    OpsWith(r, "failed") \cap {"endTrip", "endTracking"} # {} =>
      /\ \A k \in 1..Len(calls[r]) :
           calls[r][k].op \notin {"createTrip", "startTracking", "updateTripToInTransit"}
      /\ pc[r] \notin {"createTrip", "startTracking", "updateTripToInTransit"}

C3_Witness ==
  /\ pc[1] = "return"
  /\ "endTracking" \in OpsWith(1, "failed")
  /\ Len(customerIds[1]) = 2


\* The rows of the audit table written for call k of entry i of run r.
RowsFor(r, i, k) ==
  {n \in 1..Len(errorLogs) :
     /\ errorLogs[n].request = r
     /\ errorLogs[n].index = i
     /\ errorLogs[n].call = k}

FailedCalls(r) == {k \in 1..Len(calls[r]) : calls[r][k].status = "failed"}

WorkflowRows == {n \in 1..Len(errorLogs) : errorLogs[n].errorType = "WORKFLOW_ERROR"}

AllFailedSteps == failedSteps[1] + failedSteps[2]

\* C4 as stated: every failed call that has been handled has exactly one row
\* in the audit table.
C4_ExactlyOneRecord ==
  \A r \in Requests : \A k \in FailedCalls(r) : Cardinality(RowsFor(r, calls[r][k].index, k)) = 1

\* C4 as amended: a failed call never has more than one row; it has none only
\* when no append succeeded, in makeApiRequest or in logWorkflowError; and a
\* WORKFLOW_ERROR row stands for exactly one append that threw in
\* makeApiRequest, so an error marked logged gets no second row.
C4_AtMostOneRecord ==
  /\ \A r \in Requests : \A k \in FailedCalls(r) :
       Cardinality(RowsFor(r, calls[r][k].index, k)) <= 1
  /\ \A m, n \in 1..Len(errorLogs) :
       (/\ errorLogs[m].request = errorLogs[n].request
        /\ errorLogs[m].index = errorLogs[n].index
        /\ errorLogs[m].call = errorLogs[n].call) => m = n
  /\ Len(errorLogs) <= AllFailedSteps
  /\ sinkFailures = 2 * (AllFailedSteps - Len(errorLogs)) + Cardinality(WorkflowRows)

C4_Witness ==
  /\ pc[1] = "return"
  /\ FailedCalls(1) # {}
  /\ \A k \in FailedCalls(1) :
       \E n \in RowsFor(1, calls[1][k].index, k) : errorLogs[n].errorType # "WORKFLOW_ERROR"
  /\ sinkFailures = 0

\* C5: a run never rejects; it resolves, and its success flag says that the
\* summary counts no error.
C5_ResolvesWithSuccessFlag ==
  \A r \in Requests :
    /\ result[r].kind \in {"none", "resolved"}
    /\ pc[r] = "done" <=> Resolved(r)
    /\ Resolved(r) => result[r].success = (result[r].summary.errors = 0)

C5_Witness ==
  /\ Resolved(1)
  /\ failedSteps[1] = 2
  /\ ~result[1].success

\* C6: an entry is returned as a success, and counted in processed, exactly
\* when List, every call for an existing trip, CreateTrip, StartTracking and
\* UpdateToInTransit all succeeded for it; one entry without existing trips
\* and without failure gives totalTripData 1, processed 1, errors 0.
C6_ProcessedIffAllStepsSucceeded ==
  \A r \in Requests :
    /\ pc[r] = "return" => (itemResult[r].success <=> ItemClean(r))
    /\ totalProcessed[r] = cleanItems[r]
    /\ Resolved(r) => result[r].summary.processed = cleanItems[r]
    /\ (Resolved(r) /\ Len(request[r]) = 1 /\ failedSteps[r] = 0) =>
         result[r].summary = [totalTripData |-> 1, processed |-> 1, errors |-> 0]

C6_Witness ==
  /\ Resolved(1)
  /\ Len(request[1]) = 1
  /\ customerIds[1] = <<>>
  /\ failedSteps[1] = 0
  /\ result[1].summary.processed = 1

\* C7: the errors of the summary are the failed remote calls of the run, each
\* counted once; an entry returns as many errors as calls failed for it.
C7_ErrorsCountFailedSteps ==
  \A r \in Requests :
    /\ pc[r] = "return" => itemResult[r].errors = NumFailed(r)
    /\ pc[r] = "loop" => totalErrors[r] = failedSteps[r]
    /\ Resolved(r) => result[r].summary.errors = failedSteps[r]

\* Two existing trips, CompleteItem failing for the first only: the entry is
\* not processed and returns one error.
C7_Witness ==
  /\ pc[1] = "return"
  /\ [k \in 1..Len(calls[1]) |-> <<calls[1][k].op, calls[1][k].status>>] =
       << <<"listAllTripsInTransit", "ok">>, <<"endTrip", "failed">>,
          <<"endTrip", "ok">>, <<"endTracking", "ok">> >>
  /\ itemResult[1] = [kind |-> "returned", success |-> FALSE, errors |-> 1]

\* C8 as stated: the controller answers only once the run is over, and the
\* answer carries the summary and the success flag of the run.
C8_ResponseAfterRun ==
  \A r \in Requests :
    response[r].kind = "ok" =>
      /\ Resolved(r)
      /\ "summary" \in DOMAIN response[r]
      /\ response[r].summary = result[r].summary
      /\ response[r].success = result[r].success

\* C9: a run has at most one remote call in flight, the latest one, and none
\* while it is between two entries.
C9_OneCallInFlight ==
  \A r \in Requests :
    /\ Cardinality(InFlight(r)) <= 1
    /\ InFlight(r) \subseteq {Len(calls[r])}
    /\ awaiting[r] <=> InFlight(r) # {}
    /\ pc[r] \notin Ops => InFlight(r) = {}

C9_Witness ==
  /\ idx[1] = 2
  /\ pc[1] = "startTracking"
  /\ InFlight(1) = {Len(calls[1])}
  /\ Len(calls[1]) > 2

Started(r) == attempted[r] # <<>>

\* C10 as stated: the remote calls of two batches do not interleave: a run
\* sends no call while another run that has sent calls is not over.
C10_BatchesSerial ==
  \A r1, r2 \in Requests :
    r1 # r2 => ~(/\ Started(r1) /\ pc[r1] # "done"
                 /\ Started(r2) /\ pc[r2] # "done")


(* ---- the calls of one entry --------------------------------------------------- *)
PerItemOps == {"listAllTripsInTransit", "createTrip", "startTracking",
               "updateTripToInTransit"}

PerPairOps == {"endTrip", "endTracking"}

CallsOf(r, op) == {k \in 1..Len(calls[r]) : calls[r][k].op = op}

\* The calls of the entry that name existing trip c.
CallsFor(r, op, c) == {k \in CallsOf(r, op) : calls[r][k].payload.tripIdentifier = {c}}

\* Position in the List response of the existing trip call k is about.
PairOf(r, k) ==
  CHOOSE j \in 1..Len(customerIds[r]) : calls[r][k].payload.tripIdentifier = {customerIds[r][j]}

OpSequence(r) == [k \in 1..Len(calls[r]) |-> <<calls[r][k].op, calls[r][k].status>>]

\* C12: no step is attempted twice: an entry has at most one List, CreateTrip,
\* StartTracking and UpdateToInTransit call and, for each existing trip, at
\* most one CompleteItem and one EndTracking call, so a failed call is never
\* sent again; and no entry gets a second List call in the run.
C12_AtMostOneAttemptPerStep ==
  \A r \in Requests :
    /\ \A op \in PerItemOps : Cardinality(CallsOf(r, op)) <= 1
    /\ \A op \in PerPairOps :
         /\ \A j \in 1..Len(customerIds[r]) :
              Cardinality(CallsFor(r, op, customerIds[r][j])) <= 1
         /\ \A k \in CallsOf(r, op) :
              \E j \in 1..Len(customerIds[r]) : k \in CallsFor(r, op, customerIds[r][j])
    /\ \A k \in FailedCalls(r) : \A m \in 1..Len(calls[r]) :
         (m > k /\ calls[r][m].op = calls[r][k].op) =>
           calls[r][m].payload # calls[r][k].payload
    /\ \A a, b \in 1..Len(attempted[r]) : a # b => attempted[r][a] # attempted[r][b]

\* Two existing trips closed, then CreateTrip fails, and the entry returns.
C12_Witness ==
  /\ pc[1] = "return"
  /\ OpSequence(1) =
       << <<"listAllTripsInTransit", "ok">>, <<"endTrip", "ok">>, <<"endTracking", "ok">>,
          <<"endTrip", "ok">>, <<"endTracking", "ok">>, <<"createTrip", "failed">> >>

\* Call k of the entry comes where the body of processTripData puts it.
InOrder(r, k) ==
  LET c == calls[r][k]
      p == calls[r][k - 1]
      n == Len(customerIds[r])
  IN IF c.op = "listAllTripsInTransit" THEN k = 1
     ELSE /\ k > 1
          /\ p.status # "pending"
          /\ CASE c.op = "endTrip" ->
                     IF PairOf(r, k) = 1 THEN p.op = "listAllTripsInTransit"
                     ELSE p.op \in PerPairOps /\ PairOf(r, k - 1) = PairOf(r, k) - 1
               [] c.op = "endTracking" ->
                     p.op = "endTrip" /\ PairOf(r, k - 1) = PairOf(r, k)
               [] c.op = "createTrip" ->
                     IF n = 0 THEN p.op = "listAllTripsInTransit"
                     ELSE p.op \in PerPairOps /\ PairOf(r, k - 1) = n
               [] c.op = "startTracking" -> p.op = "createTrip"
               [] c.op = "updateTripToInTransit" -> p.op = "startTracking"

\* C19: the calls of an entry are sent in the order List, then CompleteItem and
\* EndTracking for each existing trip in the order of the List response, then
\* CreateTrip, StartTracking, UpdateToInTransit, and a call is sent only when
\* the previous call of the entry has settled.
C19_OperationsInOrder ==
  \A r \in Requests :
    /\ \A k \in 1..Len(calls[r]) : InOrder(r, k)
    /\ \A k \in 1..Len(calls[r]) :
         calls[r][k].op \in PerPairOps =>
           \E j \in 1..Len(customerIds[r]) :
             /\ calls[r][k].payload.tripIdentifier = {customerIds[r][j]}
             /\ customerIds[r][j] = ExistingOlpn(j)

C19_Witness ==
  /\ pc[1] = "return"
  /\ OpSequence(1) =
       << <<"listAllTripsInTransit", "ok">>, <<"endTrip", "ok">>, <<"endTracking", "ok">>,
          <<"endTrip", "ok">>, <<"endTracking", "ok">>, <<"createTrip", "ok">>,
          <<"startTracking", "ok">>, <<"updateTripToInTransit", "ok">> >>

\* C20: after CompleteItem failed for an existing trip, no EndTracking call
\* names that trip, the entry is marked existingTripsFailed, and the next call
\* of the run, if the trip was not the last one, is the CompleteItem of the
\* next existing trip of the same entry.
C20_CompleteItemFailureSkipsTracking ==
  \A r \in Requests : \A k \in FailedCalls(r) \cap CallsOf(r, "endTrip") :
    LET j == PairOf(r, k)
    IN /\ CallsFor(r, "endTracking", customerIds[r][j]) = {}
       /\ existingTripsFailed[r]
       /\ j < Len(customerIds[r]) =>
            IF k < Len(calls[r])
            THEN /\ calls[r][k + 1].op = "endTrip"
                 /\ PairOf(r, k + 1) = j + 1
                 /\ calls[r][k + 1].index = calls[r][k].index
            ELSE /\ pc[r] = "endTrip"
                 /\ pairIdx[r] = j + 1
                 /\ idx[r] = calls[r][k].index

C20_Witness ==
  /\ pc[1] = "endTrip"
  /\ awaiting[1]
  /\ existingTripsFailed[1]
  /\ OpSequence(1) =
       << <<"listAllTripsInTransit", "ok">>, <<"endTrip", "failed">>,
          <<"endTrip", "pending">> >>
  /\ calls[1][3].payload.tripIdentifier = {customerIds[1][2]}


InvalidBatch(tripData) ==
  \/ Len(tripData) = 0
  \/ \E i \in 1..Len(tripData) : tripData[i].timestamp = InvalidTimestamp

\* C13: a submitted batch that is empty or holds a timestamp that does not
\* parse is answered with 400 Bad Request; no workflow runs for it, no remote
\* call is sent for it and no row is written for it.
C13_InvalidBatchRejected ==
  \A r \in Requests :
    (pc[r] # "idle" /\ InvalidBatch(request[r])) =>
      /\ response[r] = [kind |-> "error", status |-> 400]
      /\ pc[r] = "rejected"
      /\ result[r] = NoResult
      /\ calls[r] = <<>>
      /\ attempted[r] = <<>>
      /\ \A n \in 1..Len(errorLogs) : errorLogs[n].request # r

\* The second of two entries carries the timestamp that does not parse.
C13_Witness ==
  /\ pc[1] = "rejected"
  /\ Len(request[1]) = 2
  /\ request[1][1].timestamp # InvalidTimestamp
  /\ request[1][2].timestamp = InvalidTimestamp


\* C18: when every remote call and every append settles, a run that was
\* started resolves with its result.
C18_RunCompletes ==
  \A r \in Requests : (pc[r] \notin {"idle", "rejected"}) ~> Resolved(r)

\* A run resolved although a remote call failed and both appends threw.
C18_Witness ==
  /\ Resolved(1)
  /\ pc[1] = "done"
  /\ failedSteps[1] > 0
  /\ sinkFailures = 2
  /\ errorLogs = <<>>


(* ---- the token cache -------------------------------------------------------------- *)
\* The Authorization headers sent so far, with the instant of their call.
HeaderLog ==
  {[at |-> passthrough[k].at, authorization |-> passthrough[k].authorization] :
     k \in {j \in 1..Len(passthrough) : passthrough[j].status # "rejected"}}
  \cup UNION {{[at |-> calls[r][k].at, authorization |-> calls[r][k].authorization] :
                 k \in 1..Len(calls[r])} : r \in Requests}

\* Instant t lies in the 55 minutes that follow a mint at instant m.
InWindow(m, t) == m <= t /\ t < m + 55 * 60 * 1000

\* C11: the calls made within the 55 minutes that follow a mint all carry the
\* same token, the one the cache holds, and no second mint happens within
\* those 55 minutes.
C11_TokenReusedWithinWindow ==
  /\ \A i \in 1..Len(mints) : \A a, b \in HeaderLog :
       (InWindow(mints[i], a.at) /\ InWindow(mints[i], b.at)) =>
         /\ a.authorization = b.authorization
         /\ a.authorization # None
  /\ \A i, j \in 1..Len(mints) : i < j => ~InWindow(mints[i], mints[j])
  /\ \A a \in HeaderLog : \E i \in 1..Len(mints) : mints[i] <= a.at

\* Two calls one millisecond short of 55 minutes apart share the token; the
\* call one millisecond later gets a new one.
C11_Witness ==
  /\ Len(passthrough) = 3
  /\ \A k \in 1..3 : passthrough[k].status # "rejected"
  /\ passthrough[1].at = 0
  /\ passthrough[2].at = RefreshWindow - 1
  /\ passthrough[3].at = RefreshWindow
  /\ passthrough[1].authorization = passthrough[2].authorization
  /\ passthrough[3].authorization # passthrough[2].authorization
  /\ mints = <<0, RefreshWindow>>

\* The credentials a token cannot be signed without.
SigningCredentials == {"GOOGLE_CLIENT_EMAIL", "GOOGLE_PRIVATE_KEY_ID", "GOOGLE_PRIVATE_KEY"}

\* C14 as stated: construction fails when the client email, the key id or the
\* private key is missing: an instance exists, and a token is minted, only
\* with all three.
C14_ConstructionNeedsCredentials ==
  /\ (service # "absent" /\ ~(SigningCredentials \subseteq config)) => service = "failed"
  /\ service = "ready" => SigningCredentials \subseteq config
  /\ mints # <<>> => SigningCredentials \subseteq config


(* ---- the audit table ------------------------------------------------------------ *)
\* The rows of the table older than d days at the current instant.
OlderThan(d) == {n \in 1..Len(errorLogs) : errorLogs[n].timestamp < now - d * 24 * 60 * 60 * 1000}

\* The step is a cleanup with daysOld = d that changes the table or its answer.
CleanupStep(d) ==
  /\ <<errorLogs, cleanup>>' # <<errorLogs, cleanup>>
  /\ DeleteOldLogs(d)

\* C15: deleteOldLogs(d) removes the rows whose timestamp is older than d days
\* before the current instant and no other row, leaves the other rows as
\* they were and in their order, and answers the number of rows it removed.
C15_CleanupRemovesExactlyExpired ==
  [][\A d \in -1..scenario.periods :
       CleanupStep(d) =>
         /\ Len(errorLogs') = Len(errorLogs) - Cardinality(OlderThan(d))
         /\ \A n \in (1..Len(errorLogs)) \ OlderThan(d) :
              errorLogs'[n - Cardinality({m \in OlderThan(d) : m < n})] = errorLogs[n]
         /\ cleanup'.deletedCount = Cardinality(OlderThan(d))]_vars

\* Of two rows one millisecond apart the older one was removed, the one
\* exactly one day old was kept.
C15_Witness ==
  /\ cleanup.kind = "done"
  /\ cleanup.deletedCount = 1
  /\ cleanup.cutoffDate = MillisPerDay
  /\ now = 2 * MillisPerDay
  /\ Len(errorLogs) = 1
  /\ errorLogs[1].timestamp = MillisPerDay
  /\ passthrough[1].at = MillisPerDay - 1
  /\ passthrough[1].status = "failed"

\* C16: a cleanup that follows a cleanup with the same cutoff, no row having
\* been appended in between, removes nothing, answers 0 and leaves the table
\* as it was.
C16_CleanupIdempotent ==
  [][\A d \in -1..scenario.periods :
       (/\ CleanupStep(d)
        /\ cleanup.kind = "done"
        /\ cleanup.cutoffDate = now - d * 24 * 60 * 60 * 1000
        /\ cleanup.left = Len(errorLogs)) =>
         /\ errorLogs' = errorLogs
         /\ cleanup'.deletedCount = 0]_vars

\* Two rows were written, a cleanup removed one of them, and the cleanup was
\* run again.
C16_Witness ==
  /\ cleanup.kind = "done"
  /\ cleanup.repeated
  /\ cleanup.deletedCount = 0
  /\ Len(passthrough) = 2
  /\ \A k \in 1..2 : passthrough[k].status = "failed"
  /\ Len(errorLogs) = 1

\* The step appends one row and leaves the rows there were.
Appended ==
  /\ Len(errorLogs') = Len(errorLogs) + 1
  /\ SubSeq(errorLogs', 1, Len(errorLogs)) = errorLogs

\* The step is a cleanup, and every row it leaves was there before.
Trimmed ==
  /\ \E d \in -1..scenario.periods : DeleteOldLogs(d)
  /\ \A n \in 1..Len(errorLogs') : \E m \in 1..Len(errorLogs) : errorLogs[m] = errorLogs'[n]

\* C17: a step of a run, of a remote call or of a query leaves the rows of the
\* table as they are or appends one row; only the cleanup removes rows, and
\* it alters none.
C17_RecordsImmutable == [][errorLogs' = errorLogs \/ Appended \/ Trimmed]_vars

\* A row written by a run was returned by a query and survived a cleanup
\* and the write of a second row.
C17_Witness ==
  /\ Len(errorLogs) = 2
  /\ pc[1] = "done"
  /\ found.kind = "rows"
  /\ Len(found.rows) = 1
  /\ found.rows[1] = errorLogs[1]
  /\ cleanup.kind = "done"
  /\ cleanup.left = 1

(* ---- the loop over the existing trips ------------------------------------------- *)
\* The positions of the List response whose turn in the loop is over.
PairsDone(r) ==
  IF pc[r] \in PerPairOps THEN 1..(pairIdx[r] - 1)
  ELSE IF pc[r] \in {"gate", "createTrip", "startTracking", "updateTripToInTransit", "return"}
       THEN 1..Len(customerIds[r])
       ELSE {}

\* C21: every existing trip of the List response gets exactly one CompleteItem
\* call once its turn in the loop is over, whatever failed for the trips before
\* it; and a failed EndTracking marks the entry existingTripsFailed and is
\* followed by the CompleteItem of the next existing trip of the same entry.
C21_EveryPairCompletedOnce ==
  \A r \in Requests :
    /\ \A j \in PairsDone(r) :
         Cardinality(CallsFor(r, "endTrip", customerIds[r][j])) = 1
    /\ \A k \in FailedCalls(r) \cap CallsOf(r, "endTracking") :
         LET j == PairOf(r, k)
         IN /\ existingTripsFailed[r]
            /\ j < Len(customerIds[r]) =>
                 IF k < Len(calls[r])
                 THEN /\ calls[r][k + 1].op = "endTrip"
                      /\ PairOf(r, k + 1) = j + 1
                      /\ calls[r][k + 1].index = calls[r][k].index
                 ELSE /\ pc[r] = "endTrip"
                      /\ pairIdx[r] = j + 1
                      /\ idx[r] = calls[r][k].index

\* EndTracking failed for the first of two existing trips and CompleteItem for
\* the second: both got their CompleteItem call.
C21_Witness ==
  /\ pc[1] = "return"
  /\ Len(customerIds[1]) = 2
  /\ OpSequence(1) =
       << <<"listAllTripsInTransit", "ok">>, <<"endTrip", "ok">>,
          <<"endTracking", "failed">>, <<"endTrip", "failed">> >>

(* ---- failures of the steps of an entry ------------------------------------------- *)
\* The List call of entry i of run r failed: it is the first call of an entry.
FailedAtList(r, i) ==
  \E n \in 1..Len(errorLogs) :
    /\ errorLogs[n].request = r
    /\ errorLogs[n].index = i
    /\ errorLogs[n].call = 1
    /\ errorLogs[n].endpoint = Endpoint("listAllTripsInTransit")

\* C22: when the List call of an entry fails, no other call is sent for the
\* entry, the entry returns as failed with one error, and the run moves to the
\* next entry; a run of two entries, the first failing at List and the second
\* going through all its steps, resolves with totalTripData 2, processed 1 and
\* at least one error.
C22_ListFailureFailsItemOnly ==
  \A r \in Requests :
    /\ (calls[r] # <<>> /\ calls[r][1].status = "failed") =>
         /\ calls[r][1].op = "listAllTripsInTransit"
         /\ Len(calls[r]) = 1
         /\ pc[r] \in {"return", "loop", "done"}
         /\ result[r].kind # "rejected"
         /\ pc[r] = "return" =>
              itemResult[r] = [kind |-> "returned", success |-> FALSE, errors |-> 1]
         /\ pc[r] \in {"loop", "done"} => idx[r] = calls[r][1].index + 1
    /\ (Resolved(r) /\ Len(sortedTripData[r]) = 2 /\ FailedAtList(r, 1) /\ ItemClean(r)) =>
         /\ result[r].summary.totalTripData = 2
         /\ result[r].summary.processed = 1
         /\ result[r].summary.errors >= 1
         /\ ~result[r].success

\* The first of two entries failed at List, the second went through its steps.
C22_Witness ==
  /\ Resolved(1)
  /\ Len(sortedTripData[1]) = 2
  /\ FailedAtList(1, 1)
  /\ ItemClean(1)
  /\ calls[1][1].index = 2
  /\ failedSteps[1] = 1

NewTripOps == {"createTrip", "startTracking", "updateTripToInTransit"}

\* Some call of the entry before call k was op and succeeded.
SucceededBefore(r, k, op) ==
  \E m \in 1..(k - 1) : calls[r][m].op = op /\ calls[r][m].status = "ok"

\* The entry whose last call failed in one of the three steps of the new trip.
FailedAtNewTrip(r) ==
  /\ calls[r] # <<>>
  /\ calls[r][Len(calls[r])].status = "failed"
  /\ calls[r][Len(calls[r])].op \in NewTripOps

\* C23: a failed CreateTrip, StartTracking or UpdateToInTransit is the last
\* call of its entry and its only failed call; StartTracking is sent only after
\* CreateTrip succeeded and UpdateToInTransit only after StartTracking
\* succeeded; the entry returns as failed with one error, and when the run
\* takes that result it counts one error more, no entry more as processed, and
\* moves to the next entry.
C23_NewTripStepFailureStopsEntry ==
  /\ [](\A r \in Requests :
          /\ \A k \in FailedCalls(r) :
               calls[r][k].op \in NewTripOps =>
                 /\ k = Len(calls[r])
                 /\ NumFailed(r) = 1
                 /\ ~ItemClean(r)
                 /\ pc[r] \in {"return", "loop", "done"}
                 /\ pc[r] = "return" =>
                      itemResult[r] = [kind |-> "returned", success |-> FALSE, errors |-> 1]
                 /\ pc[r] \in {"loop", "done"} => idx[r] = calls[r][k].index + 1
          /\ \A k \in CallsOf(r, "startTracking") : SucceededBefore(r, k, "createTrip")
          /\ \A k \in CallsOf(r, "updateTripToInTransit") :
               SucceededBefore(r, k, "startTracking"))
  /\ [][\A r \in Requests :
          (FailedAtNewTrip(r) /\ pc[r] = "return" /\ pc'[r] # "return") =>
            /\ totalProcessed'[r] = totalProcessed[r]
            /\ totalErrors'[r] = totalErrors[r] + 1
            /\ idx'[r] = idx[r] + 1
            /\ pc'[r] = "loop"]_vars

\* StartTracking failed for the first of two entries, after CreateTrip had
\* succeeded, and the run is at the second entry.
C23_Witness ==
  /\ pc[1] = "loop"
  /\ idx[1] = 2
  /\ Len(sortedTripData[1]) = 2
  /\ OpSequence(1) =
       << <<"listAllTripsInTransit", "ok">>, <<"createTrip", "ok">>,
          <<"startTracking", "failed">> >>
  /\ totalProcessed[1] = 0
  /\ totalErrors[1] = 1

(* ---- the number of calls of an entry ---------------------------------------------- *)
\* C30 as stated: an entry that has returned has driven between 2 and 6 remote
\* calls.
C30_TwoToSixCalls ==
  \A r \in Requests :
    pc[r] = "return" => (2 <= Len(calls[r]) /\ Len(calls[r]) <= 6)

\* C30 as amended: with n existing trips in the List response an entry drives
\* at most 4 + 2n remote calls; once it has returned it has driven at least
\* one, exactly one when List failed, at most 1 + 2n when a call for an
\* existing trip failed, and exactly 4 + 2n when its last step was reached.
C30_CallsPerItem ==
  \A r \in Requests :
    LET n == Len(customerIds[r])
    IN /\ Len(calls[r]) <= 4 + 2 * n
       /\ pc[r] = "return" =>
            /\ Len(calls[r]) >= 1
            /\ calls[r][1].status = "failed" <=> Len(calls[r]) = 1
            /\ OpsWith(r, "failed") \cap PerPairOps # {} => Len(calls[r]) <= 1 + 2 * n
            /\ CallsOf(r, "updateTripToInTransit") # {} <=> Len(calls[r]) = 4 + 2 * n
            /\ NumFailed(r) = 0 => Len(calls[r]) = 4 + 2 * n

\* An entry with two existing trips went through all its steps: eight calls.
C30_Witness ==
  /\ pc[1] = "return"
  /\ Len(customerIds[1]) = 2
  /\ NumFailed(1) = 0
  /\ Len(calls[1]) = 8

(* ---- the refresh decision ----------------------------------------------------------- *)
\* The step hands a request to makeApiRequest, which asks for the header.
HeaderRequested ==
  /\ Len(passthrough') = Len(passthrough) + 1
  /\ passthrough'[Len(passthrough')].status = "pending"

\* C28: getAuthHeader mints exactly when nothing is cached or the clock is at
\* or past the cached expiry minus five minutes; it then caches the new token
\* with an expiry one hour after the mint and the header carries the new
\* token; otherwise the cache is left as it is and the header carries the
\* cached token.  A cached token always expires one hour after the last mint.
C28_MintsExactlyWhenStale ==
  /\ [](currentToken # None =>
          /\ mints # <<>>
          /\ tokenExpirationTime = mints[Len(mints)] + 60 * 60 * 1000
          /\ \A tk \in currentToken :
               /\ tk.iat = mints[Len(mints)] \div 1000
               /\ tk.exp = tk.iat + 60 * 60)
  /\ [][HeaderRequested =>
          LET header == passthrough'[Len(passthrough')].authorization
          IN IF currentToken = None \/ now >= tokenExpirationTime - 5 * 60 * 1000
             THEN /\ mints' = Append(mints, now)
                  /\ tokenExpirationTime' = now + 60 * 60 * 1000
                  /\ currentToken' # None
                  /\ header = currentToken'
             ELSE /\ mints' = mints
                  /\ tokenExpirationTime' = tokenExpirationTime
                  /\ currentToken' = currentToken
                  /\ header = currentToken]_vars

\* A call one millisecond before the buffer begins got the cached token, a
\* later call past the buffer a new one.
C28_Witness ==
  /\ Len(passthrough) = 3
  /\ \A k \in 1..3 : passthrough[k].status # "rejected"
  /\ passthrough[2].at = RefreshWindow - 1
  /\ passthrough[3].at = 2 * RefreshWindow - 1
  /\ passthrough[2].authorization = passthrough[1].authorization
  /\ passthrough[3].authorization = currentToken
  /\ mints = <<0, 2 * RefreshWindow - 1>>
  /\ tokenExpirationTime = 2 * RefreshWindow - 1 + 60 * 60 * 1000

(* ---- the rows the gateway writes -------------------------------------------------- *)
\* The rows makeApiRequest wrote for the passthrough requests, and what the
\* remote API or the transport had answered to the request of row n.
GatewayRows ==
  {n \in 1..Len(errorLogs) :
     errorLogs[n].request = 0 /\ errorLogs[n].errorType # "WORKFLOW_ERROR"}

CauseOfRow(n) == CHOOSE kind \in FailureKinds : passthrough[errorLogs[n].call].cause = {kind}

\* The text spells "timeout" from position i on, in whatever letter case.
SpellsTimeoutAt(text, i) ==
  LET word == <<"t", "i", "m", "e", "o", "u", "t">>
  IN /\ i + Len(word) - 1 <= Len(text)
     /\ \A j \in 1..Len(word) :
          \E n \in 1..Len(LowerCase) :
            /\ LowerCase[n] = word[j]
            /\ text[i + j - 1] \in {LowerCase[n], UpperCase[n]}

\* C26: the row written for a non-2xx response carries the HTTP status, and
\* its errorType is TIMEOUT_ERROR exactly when the status is 408 or 504 or the
\* body spells "timeout" somewhere, in whatever letter case; otherwise it is
\* API_ERROR.
C26_TimeoutClassification ==
  \A n \in GatewayRows :
    IsHttp(CauseOfRow(n)) =>
      LET answer == HttpFailures[CauseOfRow(n)]
      IN /\ errorLogs[n].statusCode = answer.status
         /\ errorLogs[n].errorMessage.text = answer.body
         /\ errorLogs[n].errorType =
              IF \/ answer.status \in {408, 504}
                 \/ \E i \in 1..Len(answer.body) : SpellsTimeoutAt(answer.body, i)
              THEN "TIMEOUT_ERROR" ELSE "API_ERROR"

\* A 503 whose body says TIMEOUT in capitals was written as TIMEOUT_ERROR, a
\* 500 whose body says "Timed out" as API_ERROR.
C26_Witness ==
  /\ Len(errorLogs) = 2
  /\ GatewayRows = {1, 2}
  /\ errorLogs[1].statusCode = 503
  /\ errorLogs[1].errorType = "TIMEOUT_ERROR"
  /\ CauseOfRow(2) = "httpTimedOut"
  /\ errorLogs[2].errorType = "API_ERROR"

\* The error carries one of the marks of a network failure.
NetworkMarker(error) ==
  \/ error.code \in {"ENOTFOUND", "ECONNREFUSED", "ECONNRESET"}
  \/ Includes(error.message, <<"f", "e", "t", "c", "h">>)
  \/ Includes(error.message, <<"n", "e", "t", "w", "o", "r", "k">>)

\* C27 as stated: the row written for a transport-level failure has statusCode
\* 0, and its errorType is NETWORK_ERROR when the error carries a network
\* marker and REQUEST_ERROR when it carries none.
C27_TransportClassification ==
  \A n \in GatewayRows :
    ~IsHttp(CauseOfRow(n)) =>
      /\ errorLogs[n].statusCode = 0
      /\ errorLogs[n].errorType =
           IF NetworkMarker(TransportFailures[CauseOfRow(n)])
           THEN "NETWORK_ERROR" ELSE "REQUEST_ERROR"

(* ---- the error the gateway raises --------------------------------------------------- *)
\* The rows makeApiRequest itself wrote for call k of entry i of request r.
OwnRows(r, i, k) == {n \in RowsFor(r, i, k) : errorLogs[n].errorType # "WORKFLOW_ERROR"}

\* The error raised for the failed call is a ChorusApiError for that call, and
\* its isLogged flag is as the predicate says.
RaisedFor(call, r, k, Logged(_)) ==
  /\ Cardinality(call.error) = 1
  /\ \A err \in call.error :
       /\ err.isChorusApiError
       /\ err.endpoint = call.endpoint
       /\ \A kind \in call.cause : err.statusCode = StatusCode(kind)
       /\ Logged(err)
       /\ \A n \in OwnRows(r, call.index, k) :
            /\ errorLogs[n].endpoint = err.endpoint
            /\ errorLogs[n].statusCode = err.statusCode
            /\ errorLogs[n].errorMessage = err.message

\* C29 as stated: the error raised for a failed call is a ChorusApiError
\* marked logged, and one row for the call has been written.
C29_RaisedErrorIsLogged ==
  /\ \A k \in 1..Len(passthrough) :
       passthrough[k].status = "failed" =>
         /\ RaisedFor(passthrough[k], 0, k, LAMBDA err : err.isLogged)
         /\ Cardinality(OwnRows(0, 0, k)) = 1
  /\ \A r \in Requests : \A k \in FailedCalls(r) :
       /\ RaisedFor(calls[r][k], r, k, LAMBDA err : err.isLogged)
       /\ Cardinality(OwnRows(r, calls[r][k].index, k)) = 1

\* C29 as amended: the error raised for a failed call is a ChorusApiError
\* carrying the endpoint and the status of the call; it is marked logged
\* exactly when makeApiRequest's append succeeded, and then exactly one row of
\* makeApiRequest for the call is in the table, with the endpoint, status and
\* message of the error; when the append threw, the error is raised unmarked
\* and makeApiRequest has written no row.  A call that has not failed has
\* raised no error.
C29_LoggedIffRecorded ==
  /\ \A k \in 1..Len(passthrough) :
       IF passthrough[k].status = "failed"
       THEN RaisedFor(passthrough[k], 0, k,
                      LAMBDA err : Cardinality(OwnRows(0, 0, k)) = IF err.isLogged THEN 1 ELSE 0)
       ELSE passthrough[k].error = None
  /\ \A r \in Requests : \A k \in 1..Len(calls[r]) :
       IF calls[r][k].status = "failed"
       THEN RaisedFor(calls[r][k], r, k,
                      LAMBDA err : Cardinality(OwnRows(r, calls[r][k].index, k)) =
                                     IF err.isLogged THEN 1 ELSE 0)
       ELSE calls[r][k].error = None

\* Two requests failed; the append threw for the first one only.
C29_Witness ==
  /\ Len(passthrough) = 2
  /\ \A k \in 1..2 : passthrough[k].status = "failed"
  /\ \A err \in passthrough[1].error : ~err.isLogged
  /\ \A err \in passthrough[2].error : err.isLogged
  /\ passthrough[2].cause = {"transportReset"}
  /\ Len(errorLogs) = 1

(* ---- C24, C25: exceptions no step handles ------------------------------------- *)
\* The WORKFLOW_ERROR rows of run r written for an exception that came from no
\* Gateway call.
UncaughtRows(r) ==
  {n \in WorkflowRows : errorLogs[n].request = r /\ errorLogs[n].endpoint = "workflow"}

\* Entry i of run r was handled: a call was issued for it, or its exception
\* was logged.
Handled(r, i) ==
  \/ \E k \in 1..Len(calls[r]) : calls[r][k].index = i
  \/ \E n \in UncaughtRows(r) : errorLogs[n].index = i

\* C24: an exception raised while an entry is handled and caught by no step
\* (one raised while the entry's fields are read included) is logged once as
\* a WORKFLOW_ERROR, makes the entry return one error, and the run goes on:
\* every entry of the batch is handled before the run resolves, and each such
\* exception adds one to the errors of the summary.
C24_UncaughtExceptionFailsEntryOnly ==
  \A r \in Requests :
    /\ \A i \in 1..Len(sortedTripData[r]) :
         Cardinality({n \in UncaughtRows(r) : errorLogs[n].index = i}) <= 1
    /\ (pc[r] = "return" /\ \E n \in UncaughtRows(r) : errorLogs[n].index = idx[r]) =>
         (~itemResult[r].success /\ itemResult[r].errors = 1)
    /\ Resolved(r) =>
         /\ \A i \in 1..Len(sortedTripData[r]) : Handled(r, i)
         /\ result[r].summary.errors = failedSteps[r] + Cardinality(UncaughtRows(r))

\* C25: a failure of the sort, or one that leaves processTripData, ends the
\* run without a rejection: the run resolves with success false and the
\* summary (entries of the batch, processed so far, errors so far plus one),
\* and one WORKFLOW_ERROR row is appended.
C25_CatastrophicFailureResolves ==
  \A r \in Requests :
    /\ result[r].kind # "rejected"
    /\ (Resolved(r) /\ idx[r] <= Len(sortedTripData[r])) =>
         /\ ~result[r].success
         /\ result[r].summary = [totalTripData |-> Len(sortedTripData[r]),
                                 processed |-> totalProcessed[r],
                                 errors |-> totalErrors[r] + 1]
         /\ Cardinality({n \in UncaughtRows(r) : errorLogs[n].call = 0}) = 1

(* ---- C31: the passthrough endpoints --------------------------------------------- *)
\* The requests to the passthrough endpoints whose call failed.
FailedPassthroughs == {k \in 1..Len(passthrough) : passthrough[k].status = "failed"}

\* Request k went to makeApiRequest once, with the endpoint and the body of
\* its operation.
OneCallFor(k) ==
  /\ passthrough[k].endpoint = Endpoint(passthrough[k].op)
  /\ passthrough[k].payload = Payload(passthrough[k].op, "T1364ME", 1)
  /\ passthrough[k].authorization # None

\* C31 as stated: a passthrough operation with valid identifiers makes one
\* call, and when the call fails exactly one row is written and the caller
\* gets an error.
C31_OneCallOneRecord ==
  \A k \in 1..Len(passthrough) :
    /\ OneCallFor(k)
    /\ k \in FailedPassthroughs =>
         /\ Cardinality(RowsFor(0, 0, k)) = 1
         /\ passthrough[k].response.kind = "error"

\* C31 as amended: a passthrough operation with valid identifiers makes one
\* call; when the call fails the caller gets an error (status 500), never a
\* success, and at most one row is written for it: one when the append
\* succeeded, none when it threw.  A call that resolved writes no row and is
\* answered with success; the table holds nothing else.
C31_OneCallAtMostOneRecord ==
  /\ \A k \in 1..Len(passthrough) :
       /\ OneCallFor(k)
       /\ k \in FailedPassthroughs =>
            /\ passthrough[k].response = [kind |-> "error", status |-> 500]
            /\ \A err \in passthrough[k].error :
                 Cardinality(RowsFor(0, 0, k)) = IF err.isLogged THEN 1 ELSE 0
       /\ passthrough[k].status = "ok" =>
            /\ passthrough[k].response = [kind |-> "ok", success |-> TRUE]
            /\ RowsFor(0, 0, k) = {}
       /\ passthrough[k].status = "pending" => passthrough[k].response = NoResponse
  /\ Len(errorLogs) + sinkFailures = Cardinality(FailedPassthroughs)

\* An end-trip call failed and its append threw; a list call failed and its
\* row was written.
C31_Witness ==
  /\ Len(passthrough) = 2
  /\ passthrough[1].op = "endTrip"
  /\ passthrough[2].op = "listAllTripsInTransit"
  /\ FailedPassthroughs = {1, 2}
  /\ RowsFor(0, 0, 1) = {}
  /\ Cardinality(RowsFor(0, 0, 2)) = 1
  /\ sinkFailures = 1

(* ---- C40: a passthrough request without its identifiers --------------------------- *)
\* The requests to the passthrough endpoints that came without an identifier.
WithoutIdentifiers == {k \in 1..Len(passthrough) : passthrough[k].status = "rejected"}

\* C40: a passthrough endpoint requested without one of its identifiers
\* answers BAD_REQUEST (400) and sends nothing to the remote API.
C40_MissingIdentifierIsBadRequest ==
  \A k \in WithoutIdentifiers :
    /\ passthrough[k].response = [kind |-> "error", status |-> 400]
    /\ passthrough[k].authorization = None
    /\ RowsFor(0, 0, k) = {}

(* ---- C33: the sort ------------------------------------------------------------------ *)
\* The batch of request r was sorted.
Sorted(r) == pc[r] \notin {"idle", "rejected"}

\* C33: the sorted batch is a permutation of the submitted one, in
\* non-decreasing order of timestamp, entries of equal timestamp in their
\* order of submission; the submitted array is as it was submitted.
C33_SortStableAscending ==
  \A r \in Requests :
    Sorted(r) =>
      LET s == sortedTripData[r]
          b == request[r]
      IN /\ Len(s) = Len(b)
         /\ \A p \in 1..Len(b) : b[p].olpn = p
         /\ \A p \in 1..Len(b) : Cardinality({i \in 1..Len(s) : s[i] = b[p]}) = 1
         /\ \A i, j \in 1..Len(s) :
              i < j =>
                /\ GetTime(s[i].timestamp) <= GetTime(s[j].timestamp)
                /\ GetTime(s[i].timestamp) = GetTime(s[j].timestamp) => s[i].olpn < s[j].olpn

\* A batch whose entries all carry the same timestamp was sorted.
C33_Witness ==
  /\ Sorted(1)
  /\ Len(request[1]) = MaxBatch
  /\ \A p \in 1..Len(request[1]) : request[1][p].timestamp = MaxTime
  /\ sortedTripData[1] = request[1]

(* ---- C34: the query of the audit table -------------------------------------------- *)
\* The row satisfies every filter that was supplied: the equalities, the
\* endpoint containing the text asked for, and each bound of the time range
\* that was given.
SatisfiesFilters(row, filters) ==
  /\ filters.errorType # None => {row.errorType} = filters.errorType
  /\ \A part \in filters.endpoint : Includes(EndpointText(row.endpoint), part)
  /\ filters.toteId # None => row.toteId = filters.toteId
  /\ filters.olpn # None => row.olpn = filters.olpn
  /\ \A startDate \in filters.startDate : startDate <= row.timestamp
  /\ \A endDate \in filters.endDate : row.timestamp <= endDate

\* C34: findAll returns the rows that satisfy every supplied filter, newest
\* first, the rows of the page asked for and at most `limit` of them, and
\* total counts all the rows that satisfy the filters.
C34_FindAllReturnsMatching ==
  found.kind = "page" =>
    LET matching == {n \in 1..Len(errorLogs) : SatisfiesFilters(errorLogs[n], found.filters)}
        offset == (found.page - 1) * found.limit
        left == IF Cardinality(matching) > offset THEN Cardinality(matching) - offset ELSE 0
    IN /\ found.total = Cardinality(matching)
       /\ Len(found.logs) = IF left < found.limit THEN left ELSE found.limit
       /\ \A i \in 1..Len(found.logs) : \E n \in matching : errorLogs[n] = found.logs[i]
       /\ \A i, j \in 1..Len(found.logs) :
            i < j => /\ found.logs[i].timestamp >= found.logs[j].timestamp
                     /\ found.logs[i] # found.logs[j]

(* ---- C36: the fallback append ------------------------------------------------------- *)
\* The WORKFLOW_ERROR rows written for call k of entry i of run r.
FallbackRows(r, i, k) == RowsFor(r, i, k) \cap WorkflowRows

\* C36: the error of a failed call is marked logged only if makeApiRequest's
\* append succeeded.  When that append threw, the ChorusApiError is raised
\* unmarked and logWorkflowError makes one more append, of a WORKFLOW_ERROR
\* row; otherwise it makes none.  So a failed call of a run has at most two
\* appends attempted and at most one row, and a WORKFLOW_ERROR row only when
\* makeApiRequest's append threw.
C36_FallbackOnlyWhenUnlogged ==
  /\ \A r \in Requests : \A k \in 1..Len(calls[r]) :
       LET call == calls[r][k]
           own == OwnRows(r, call.index, k)
           fallback == FallbackRows(r, call.index, k)
       IN IF call.status = "failed"
          THEN /\ Cardinality(call.error) = 1
               /\ \A err \in call.error :
                    /\ err.isChorusApiError
                    /\ err.isLogged => (Cardinality(own) = 1 /\ call.appends = 1 /\ fallback = {})
                    /\ ~err.isLogged => (own = {} /\ call.appends = 2)
               /\ call.appends <= 2
               /\ Cardinality(own) + Cardinality(fallback) <= 1
          ELSE call.appends = 0 /\ own = {} /\ fallback = {}
  /\ \A r \in scenario.requests :
       pc[r] # "done" /\ idx[r] = 1 =>
         LET appends == [k \in 1..Len(calls[r]) |-> calls[r][k].appends]
             Sum[n \in 0..Len(appends)] == IF n = 0 THEN 0 ELSE Sum[n - 1] + appends[n]
         IN Sum[Len(appends)] = Len(errorLogs) + sinkFailures

\* A call failed with a transport error, the append of makeApiRequest threw
\* and the fallback append was saved.
C36_Witness ==
  /\ Cardinality(FailedCalls(1)) = 1
  /\ \A k \in FailedCalls(1) :
       /\ calls[1][k].cause = {"transport"}
       /\ calls[1][k].appends = 2
       /\ \A err \in calls[1][k].error : ~err.isLogged
       /\ Cardinality(FallbackRows(1, calls[1][k].index, k)) = 1
  /\ Len(errorLogs) = 1
  /\ sinkFailures = 1

(* ---- C35: the appends do not steer the run ------------------------------------------ *)
\* A call for an existing trip of the entry has failed.
FailedExisting(r) ==
  \E k \in 1..Len(calls[r]) : calls[r][k].op \in PerPairOps /\ calls[r][k].status = "failed"

\* Where the outcomes of the calls of the entry put processTripData: the
\* operation it sends or awaits next, the test before step 4, or its return.
\* Nothing but the List response and the outcomes of the calls is read.
PositionsOf(r) ==
  LET m == Len(calls[r])
      n == Len(customerIds[r])
      last == calls[r][m]
      ok == last.status = "ok"
      afterPairs == {"gate", IF FailedExisting(r) THEN "return" ELSE "createTrip"}
      nextPair == IF PairOf(r, m) < n THEN {"endTrip"} ELSE afterPairs
  IN IF m = 0 THEN {"listAllTripsInTransit"}
     ELSE IF last.status = "pending" THEN {last.op}
     ELSE CASE last.op = "listAllTripsInTransit" ->
                 IF ~ok THEN {"return"} ELSE IF n > 0 THEN {"endTrip"} ELSE afterPairs
            [] last.op = "endTrip" -> IF ok THEN {"endTracking"} ELSE nextPair
            [] last.op = "endTracking" -> nextPair
            [] last.op = "createTrip" -> IF ok THEN {"startTracking"} ELSE {"return"}
            [] last.op = "startTracking" -> IF ok THEN {"updateTripToInTransit"} ELSE {"return"}
            [] last.op = "updateTripToInTransit" -> {"return"}

\* C35: whichever appends to the audit table throw, the run sends the calls,
\* and returns the summary and the success flag, that the batch and the
\* outcomes of the calls determine: the position of processTripData, the
\* value it returns and the WorkflowResult are the same functions of the
\* calls' outcomes for every outcome of the appends.
C35_AppendsDoNotSteer ==
  \A r \in Requests :
    /\ pc[r] \in Ops \cup {"gate", "return"} =>
         /\ pc[r] \in PositionsOf(r)
         /\ awaiting[r] <=> InFlight(r) # {}
         /\ existingTripsFailed[r] <=> FailedExisting(r)
         /\ \A k \in 1..Len(calls[r]) :
              /\ calls[r][k].endpoint = Endpoint(calls[r][k].op)
              /\ calls[r][k].payload =
                   Payload(calls[r][k].op, TripDataOf(r).toteId,
                           IF calls[r][k].op \in PerPairOps
                           THEN customerIds[r][PairOf(r, k)] ELSE TripDataOf(r).olpn)
    /\ pc[r] = "return" =>
         itemResult[r] = [kind |-> "returned", success |-> ItemClean(r), errors |-> NumFailed(r)]
    /\ Resolved(r) =>
         /\ result[r].summary = [totalTripData |-> Len(request[r]),
                                 processed |-> cleanItems[r],
                                 errors |-> failedSteps[r]]
         /\ result[r].success <=> failedSteps[r] = 0

\* A run resolved after a call failed and both appends for it threw.
C35_Witness ==
  /\ Resolved(1)
  /\ failedSteps[1] = 1
  /\ sinkFailures = 2
  /\ errorLogs = <<>>
  /\ result[1].summary.errors = 1

(* ---- C32: callers of getAuthHeader that overlap --------------------------------------- *)
\* The tokens createJwtToken has signed so far.
Minted == {CreateJwtToken(mints[i]) : i \in 1..Len(mints)}

\* Token tk, signed at instant m, is handed out or held at instant t less
\* than one hour after it was signed, when its exp has not passed.
Fresh(tk, m, t) ==
  /\ tk = CreateJwtToken(m)
  /\ m <= t
  /\ t - m < TOKEN_VALIDITY_SECONDS * 1000
  /\ t < tk.exp * 1000

\* C32: however the callers of getAuthHeader interleave, every header sent
\* carries a token that was signed less than one hour before and whose exp
\* has not passed, and a cache that is filled holds one of the signed tokens
\* with the expiry its own caller assigned: one hour after that caller
\* resumed, which is the instant it signed at or the millisecond after.
C32_EveryCallerGetsValidToken ==
  /\ \A k \in 1..Len(passthrough) :
       /\ passthrough[k].authorization # None
       /\ \A tk \in passthrough[k].authorization :
            \E i \in 1..Len(mints) : Fresh(tk, mints[i], passthrough[k].at)
  /\ currentToken # None =>
       /\ currentToken \subseteq Minted
       /\ \A tk \in currentToken :
            /\ \E i \in 1..Len(mints) :
                 /\ tk = CreateJwtToken(mints[i])
                 /\ tokenExpirationTime - TOKEN_VALIDITY_SECONDS * 1000 \in {mints[i], mints[i] + 1}
            /\ tk.exp * 1000 <= tokenExpirationTime
  /\ \A c \in Minting : callers[c].token \subseteq Minted

\* Two callers found the cache empty and each signed a token, one in the last
\* millisecond of a second and one in the next; each sent its own token, and
\* the cache was left with the older of the two.
C32_Witness ==
  /\ mints = <<RefreshWindow - 1, RefreshWindow>>
  /\ Len(passthrough) = 2
  /\ passthrough[1].authorization = {CreateJwtToken(RefreshWindow)}
  /\ passthrough[2].authorization = {CreateJwtToken(RefreshWindow - 1)}
  /\ passthrough[1].authorization # passthrough[2].authorization
  /\ currentToken = {CreateJwtToken(RefreshWindow - 1)}
  /\ tokenExpirationTime = RefreshWindow + TOKEN_VALIDITY_SECONDS * 1000

(* ---- C39: signing a token fails --------------------------------------------------- *)
\* Caller c leaves makeApiRequest with the error of createJwtToken.
MintFailed(c) == callers'[c].pc = "threw" /\ callers'[c] # callers[c]

\* C39: a step in which the signing throws happens only when a refresh was
\* due, leaves the cached token and the cached expiry as they were and sends
\* no request; and the call a caller makes after such a failure decides on
\* the cache as it then is: it signs again when the refresh is still due, and
\* sends the cached token otherwise.
C39_FailedMintLeavesCache ==
  [][\A c \in Callers :
       /\ MintFailed(c) =>
            /\ NeedsRefresh(currentToken, tokenExpirationTime, now)
            /\ UNCHANGED <<currentToken, tokenExpirationTime, mints, passthrough, errorLogs>>
       /\ (callers[c].pc = "threw" /\ callers'[c] # callers[c]) =>
            IF NeedsRefresh(currentToken, tokenExpirationTime, now)
            THEN /\ callers'[c].pc \in {"awaiting", "threw"}
                 /\ callers'[c].pc = "awaiting" =>
                      /\ mints' = Append(mints, now)
                      /\ callers'[c].token = {CreateJwtToken(now)}
                 /\ UNCHANGED <<currentToken, tokenExpirationTime, passthrough>>
            ELSE /\ callers'[c].pc = "idle"
                 /\ \E op \in Ops : passthrough' = Append(passthrough, Sent(op, currentToken))
                 /\ UNCHANGED <<currentToken, tokenExpirationTime, mints>>]_vars

\* With a token cached whose refresh is due a signing threw: the cache still
\* holds that token and its expiry, and the one request that was sent is the
\* one that token was signed for.
C39_Witness ==
  /\ \E c \in Callers : callers[c].pc = "threw" /\ callers[c].at = RefreshWindow
  /\ now = RefreshWindow
  /\ currentToken = {CreateJwtToken(0)}
  /\ tokenExpirationTime = TOKEN_VALIDITY_SECONDS * 1000
  /\ mints = <<0>>
  /\ Len(passthrough) = 1

(* ---- C37: what listAllTripsInTransit returns ------------------------------------------ *)
\* The trips of a body, none when it has no trips field or is a text.
TripsListed(data) ==
  IF data.kind = "json" /\ data.trips # None THEN CHOOSE trips \in data.trips : TRUE ELSE <<>>

\* A customerId that is the empty text or white space.
Blank(trip) == trip.customerId \in {{EmptyText}, {BlankText}}

\* The positions of the response whose trip has a customerId that is not blank.
WithCustomerId(data) ==
  {j \in 1..Len(TripsListed(data)) :
     TripsListed(data)[j].customerId # None /\ ~Blank(TripsListed(data)[j])}

\* The i-th smallest position of a set of positions.
Nth(positions, i) == CHOOSE j \in positions : Cardinality({k \in positions : k < j}) = i - 1

\* The endTrip calls of the current entry.
EndTripsSent(r) == {k \in 1..Len(calls[r]) : calls[r][k].op = "endTrip"}

\* C37: after List resolved, customerIds and toteOlpnPairs have one entry for
\* each trip of the response whose customerId is there and not blank, in the
\* order of the response, and toteOlpnPairs[i] is the tote of the entry with
\* customerIds[i]; no iteration of the loop over the existing trips is
\* skipped: every pair is there with both of its parts, and endTrip was sent
\* for every index the loop has passed.
C37_ListResultWellFormed ==
  \A r \in Requests :
    (raw[r] # NoBody /\ pc[r] \in Ops \cup {"gate", "return"}) =>
      LET kept == WithCustomerId(raw[r])
          n == Len(customerIds[r])
      IN /\ n = Len(toteOlpnPairs[r])
         /\ n = Cardinality(kept)
         /\ \A i \in 1..n :
              /\ TripsListed(raw[r])[Nth(kept, i)].customerId = {customerIds[r][i]}
              /\ toteOlpnPairs[r][i] = <<TripDataOf(r).toteId, customerIds[r][i]>>
              /\ PairPresent(toteOlpnPairs[r], i)
         /\ Cardinality(EndTripsSent(r)) =
              CASE pc[r] = "endTrip" -> pairIdx[r] - (IF awaiting[r] THEN 0 ELSE 1)
                [] pc[r] = "endTracking" -> pairIdx[r]
                [] OTHER -> n
         /\ \A k \in EndTripsSent(r) :
              \E i \in 1..n : calls[r][k].payload.tripIdentifier = {customerIds[r][i]}

\* The response held a trip with a blank customerId and then one with an
\* identifier: one pair was returned, and its trip was ended.
C37_Witness ==
  /\ raw[1] = [kind |-> "json",
               trips |-> {<<[customerId |-> {BlankText}], [customerId |-> {ExistingOlpn(2)}]>>}]
  /\ customerIds[1] = <<ExistingOlpn(2)>>
  /\ toteOlpnPairs[1] = <<<<"T1364ME", ExistingOlpn(2)>>>>
  /\ pc[1] = "gate"
  /\ OpSequence(1) = <<<<"listAllTripsInTransit", "ok">>, <<"endTrip", "ok">>,
                       <<"endTracking", "ok">>>>

(* ---- C38: a List response without trips ------------------------------------------------ *)
\* The body has no trips field, or is a text, or every trip it holds has a
\* blank customerId.
NothingListed(data) ==
  \/ data.kind = "text"
  \/ data.trips = None
  \/ \A j \in 1..Len(TripsListed(data)) : Blank(TripsListed(data)[j])

====
